---- MODULE Spec2Model ----
(***************************************************************************)
(* SolidWorksCommandParser (Backend/command_parser.py).                    *)
(*                                                                         *)
(* A text is a sequence of characters, each character a one-character      *)
(* string (the backtick, which a TLA+ string cannot hold, is BT).  The     *)
(* regular expressions of the source are kept as syntax trees and run by a *)
(* backtracking matcher with Python's priorities (M); json.loads is a      *)
(* parser of the JSON grammar over the same characters (JsonLoads).        *)
(***************************************************************************)
EXTENDS Integers, Sequences, FiniteSets, TLC

VARIABLES
    supported_actions,  \* self.supported_actions
    supported_types,    \* self.supported_types
    thread_sizes,       \* self.thread_sizes
    op,                 \* the method a caller is calling, "none" between calls
    pc,                 \* "idle", "compose", "called" or "returned"
    parts,              \* the pieces the caller puts the argument together from
    arg,                \* the argument of the call: a text, or a parsed value
    ret,                \* what the call returned
    first               \* a parse_response call a caller keeps with its result, or None

vars == <<supported_actions, supported_types, thread_sizes, op, pc, parts, arg, ret, first>>

----------------------------------------------------------------------------
(* Characters and str methods                                              *)

BT == "<backtick>"

Digit == {"0", "1", "2", "3", "4", "5", "6", "7", "8", "9"}

DigitVal == [c \in Digit |->
    CASE c = "0" -> 0 [] c = "1" -> 1 [] c = "2" -> 2 [] c = "3" -> 3
      [] c = "4" -> 4 [] c = "5" -> 5 [] c = "6" -> 6 [] c = "7" -> 7
      [] c = "8" -> 8 [] c = "9" -> 9]

LowerAZ == <<"a", "b", "c", "d", "e", "f", "g", "h", "i", "j", "k", "l", "m",
             "n", "o", "p", "q", "r", "s", "t", "u", "v", "w", "x", "y", "z">>

UpperAZ == <<"A", "B", "C", "D", "E", "F", "G", "H", "I", "J", "K", "L", "M",
             "N", "O", "P", "Q", "R", "S", "T", "U", "V", "W", "X", "Y", "Z">>

Upper == {UpperAZ[k] : k \in 1..26}

ToLower == [c \in Upper |-> LowerAZ[CHOOSE k \in 1..26 : UpperAZ[k] = c]]

\* \w of the re module
WordChar == {LowerAZ[k] : k \in 1..26} \cup Upper \cup Digit \cup {"_"}

\* \s of the re module
Space == {" ", "\n", "\t", "\r"}

\* str.lower()
Lower(s) == [k \in 1..Len(s) |-> IF s[k] \in Upper THEN ToLower[s[k]] ELSE s[k]]

\* sub in s, for strings
Contains(sub, s) ==
    \E k \in 0..(Len(s) - Len(sub)) : SubSeq(s, k + 1, k + Len(sub)) = sub

\* s.endswith(suffix)
EndsWith(s, suffix) ==
    /\ Len(suffix) <= Len(s)
    /\ SubSeq(s, Len(s) - Len(suffix) + 1, Len(s)) = suffix

\* x in list
InList(x, list) == \E k \in 1..Len(list) : list[k] = x

\* any(word in text for word in words)
AnyWordIn(words, text) == \E k \in 1..Len(words) : Contains(words[k], text)

----------------------------------------------------------------------------
(* Numbers.  A Python int or float is kept as an exact decimal: m / 10^e,  *)
(* e the least possible, so that equal numbers are equal records.          *)

RECURSIVE Norm(_, _)
Norm(m, e) == IF e > 0 /\ m % 10 = 0 THEN Norm(m \div 10, e - 1) ELSE [m |-> m, e |-> e]

Num(n) == [m |-> n, e |-> 0]

RECURSIVE DigitsVal(_, _)
DigitsVal(ds, acc) ==
    IF ds = <<>> THEN acc ELSE DigitsVal(Tail(ds), 10 * acc + DigitVal[Head(ds)])

\* int("123")
ToInt(ds) == Num(DigitsVal(ds, 0))

\* float("123") and float("12.5"), of a string the pattern \d+(?:\.\d+)? matched
ToFloat(str) ==
    IF \E k \in 1..Len(str) : str[k] = "."
    THEN LET dot == CHOOSE k \in 1..Len(str) : str[k] = "."
             whole == SubSeq(str, 1, dot - 1)
             frac == SubSeq(str, dot + 1, Len(str))
         IN Norm(DigitsVal(whole \o frac, 0), Len(frac))
    ELSE Num(DigitsVal(str, 0))

\* bool(x) of a number
NumTruthy(x) == x.m # 0

NumAbs(x) == [x EXCEPT !.m = IF x.m < 0 THEN -x.m ELSE x.m]

NumNeg(x) == [x EXCEPT !.m = -x.m]

NumTimes2(x) == Norm(2 * x.m, x.e)

\* None
None == [none |-> TRUE]

----------------------------------------------------------------------------
(* The re module: syntax trees and the backtracking matcher.               *)

Chr(set) == [t |-> "chr", set |-> set]
NotChr(set) == [t |-> "not", set |-> set]
Lit(str) == [t |-> "lit", str |-> str]
Cat(rs) == [t |-> "cat", rs |-> rs]
Alt(rs) == [t |-> "alt", rs |-> rs]
Opt(r) == [t |-> "opt", r |-> r]
Star(r) == [t |-> "star", r |-> r, greedy |-> TRUE]
LazyStar(r) == [t |-> "star", r |-> r, greedy |-> FALSE]
Plus(r) == Cat(<<r, Star(r)>>)
Grp(n, r) == [t |-> "grp", n |-> n, r |-> r]
WordBoundary == [t |-> "wb"]

St(p, c) == [pos |-> p, caps |-> c]

\* \b at position i: exactly one side is a word character
AtBoundary(s, i) ==
    LET before == i > 1 /\ s[i - 1] \in WordChar
        after == i <= Len(s) /\ s[i] \in WordChar
    IN before # after

(* M(re, s, i, caps): every way re matches s from position i, as the end    *)
(* position and the groups of each, in the order backtracking tries them:   *)
(* the first is the match the re module reports.  Every * and + of the      *)
(* source's patterns repeats a single character class, so a repetition is   *)
(* the run of such characters from i: a greedy one gives it back one        *)
(* character at a time, a lazy one takes it one character at a time.        *)
RECURSIVE M(_, _, _, _)
RECURSIVE MEach(_, _, _, _, _)
RECURSIVE MCat(_, _, _, _)
RECURSIVE MAlt(_, _, _, _, _)

\* re from each of the states sts[lo..hi], in order
MEach(re, s, sts, lo, hi) ==
    IF lo > hi THEN <<>>
    ELSE IF lo = hi THEN M(re, s, sts[lo].pos, sts[lo].caps)
    ELSE LET mid == (lo + hi) \div 2
         IN MEach(re, s, sts, lo, mid) \o MEach(re, s, sts, mid + 1, hi)

MCat(rs, k, s, sts) ==
    IF k > Len(rs) \/ sts = <<>> THEN sts
    ELSE MCat(rs, k + 1, s, MEach(rs[k], s, sts, 1, Len(sts)))

MAlt(rs, k, s, i, caps) ==
    IF k > Len(rs) THEN <<>>
    ELSE M(rs[k], s, i, caps) \o MAlt(rs, k + 1, s, i, caps)

\* the character class r (a chr or a not) takes the character c
Takes(r, c) == IF r.t = "chr" THEN c \in r.set ELSE c \notin r.set

\* the end of the run of characters of class r that starts at i
RunEnd(r, s, i) ==
    CHOOSE j \in i..(Len(s) + 1) :
        /\ j = Len(s) + 1 \/ ~Takes(r, s[j])
        /\ \A k \in i..(j - 1) : Takes(r, s[k])

\* the ends of a repetition that starts at i and can take n characters
Repeat(greedy, i, n, caps) ==
    IF greedy THEN [k \in 1..(n + 1) |-> St(i + n + 1 - k, caps)]
    ELSE [k \in 1..(n + 1) |-> St(i + k - 1, caps)]

\* the states of a group's inside, with group n set to what it took from i
Captured(inner, n, i) ==
    [k \in 1..Len(inner) |->
        St(inner[k].pos, [inner[k].caps EXCEPT ![n] = <<i, inner[k].pos>>])]

M(re, s, i, caps) ==
    CASE re.t = "chr" ->
            IF i <= Len(s) /\ s[i] \in re.set THEN <<St(i + 1, caps)>> ELSE <<>>
      [] re.t = "not" ->
            IF i <= Len(s) /\ s[i] \notin re.set THEN <<St(i + 1, caps)>> ELSE <<>>
      [] re.t = "lit" ->
            IF i + Len(re.str) - 1 <= Len(s) /\ SubSeq(s, i, i + Len(re.str) - 1) = re.str
            THEN <<St(i + Len(re.str), caps)>> ELSE <<>>
      [] re.t = "wb" ->
            IF AtBoundary(s, i) THEN <<St(i, caps)>> ELSE <<>>
      [] re.t = "cat" -> MCat(re.rs, 1, s, <<St(i, caps)>>)
      [] re.t = "alt" -> MAlt(re.rs, 1, s, i, caps)
      [] re.t = "opt" -> M(re.r, s, i, caps) \o <<St(i, caps)>>
      [] re.t = "star" -> Repeat(re.greedy, i, RunEnd(re.r, s, i) - i, caps)
      [] re.t = "grp" -> Captured(M(re.r, s, i, caps), re.n, i)

NoMatch == [found |-> FALSE]

\* the match object of the first of the ways ms to match from start
MatchAt(start, ms) ==
    IF ms # <<>>
    THEN [found |-> TRUE, start |-> start, end |-> ms[1].pos, caps |-> ms[1].caps]
    ELSE NoMatch

\* the first of two matches that is one
FirstFound(left, right) == IF left.found THEN left ELSE right

\* the match of re at the first start in lo..hi that has one
RECURSIVE SearchRange(_, _, _, _, _)
SearchRange(re, ng, s, lo, hi) ==
    IF lo > hi THEN NoMatch
    ELSE IF lo = hi THEN MatchAt(lo, M(re, s, lo, [k \in 1..ng |-> <<>>]))
    ELSE FirstFound(SearchRange(re, ng, s, lo, (lo + hi) \div 2),
                    SearchRange(re, ng, s, (lo + hi) \div 2 + 1, hi))

\* re.search(re, s), for a pattern of ng groups, trying the starts from i on
SearchFrom(re, ng, s, i) == SearchRange(re, ng, s, i, Len(s) + 1)

Search(re, ng, s) == SearchFrom(re, ng, s, 1)

\* match.group(n) of a group that took part in the match
Group(m, s, n) == SubSeq(s, m.caps[n][1], m.caps[n][2] - 1)

\* match.group(n) is None
GroupIsNone(m, n) == m.caps[n] = <<>>

\* re.findall(re, s) for a pattern of one group: the group of each match,
\* the matches not overlapping
\* the groups of the matches from the match m on
RECURSIVE FindAllFrom(_, _, _)
FindAllFrom(re, s, m) ==
    IF ~m.found THEN <<>>
    ELSE <<Group(m, s, 1)>>
         \o FindAllFrom(re, s, SearchFrom(re, 1, s, IF m.end > m.start THEN m.end ELSE m.end + 1))

FindAll(re, s) == FindAllFrom(re, s, Search(re, 1, s))

----------------------------------------------------------------------------
(* Python values.  A dict is a function from its keys; dicts with the same *)
(* keys and values are equal whatever the order they were written in.      *)

Str(s) == [k |-> "str", s |-> s]
Number(n) == [k |-> "num", n |-> n]
Bool(b) == [k |-> "bool", b |-> b]
Null == [k |-> "null"]
List(xs) == [k |-> "list", xs |-> xs]
Dict(d) == [k |-> "dict", d |-> d]

EmptyDict == Dict([key \in {} |-> Null])

\* d[key] = val, on a dict
DictSet(dict, key, val) ==
    Dict([x \in (DOMAIN dict.d) \cup {key} |-> IF x = key THEN val ELSE dict.d[x]])

\* {k1: v1, ...}: a dict display of <<key, value>> pairs, later pairs winning
RECURSIVE DictOf(_)
DictOf(pairs) ==
    IF pairs = <<>> THEN EmptyDict
    ELSE LET n == Len(pairs)
         IN DictSet(DictOf(SubSeq(pairs, 1, n - 1)), pairs[n][1], pairs[n][2])

\* dict.get(key, default)
DictGet(dict, key, default) == IF key \in DOMAIN dict.d THEN dict.d[key] ELSE default

----------------------------------------------------------------------------
(* json.loads.  The JSON grammar: objects, arrays, strings with the        *)
(* escapes \" \\ \/ \n \t \r, numbers with an optional sign and fraction,  *)
(* true, false and null.  Exponents, \b \f \uXXXX and NaN/Infinity are     *)
(* left out; the texts of this model hold none of them.                    *)

JsonSpace == {" ", "\t", "\n", "\r"}

JFail == [ok |-> FALSE]
JOk(v, p) == [ok |-> TRUE, val |-> v, pos |-> p]

RECURSIVE SkipWs(_, _)
SkipWs(s, i) == IF i <= Len(s) /\ s[i] \in JsonSpace THEN SkipWs(s, i + 1) ELSE i

\* the end of the run of digits that starts at i (i itself when none does)
RECURSIVE DigitsEnd(_, _)
DigitsEnd(s, i) == IF i <= Len(s) /\ s[i] \in Digit THEN DigitsEnd(s, i + 1) ELSE i

Escapes == {"\"", "\\", "/", "n", "t", "r"}

Unescape(c) == CASE c = "n" -> "\n" [] c = "t" -> "\t" [] c = "r" -> "\r" [] OTHER -> c

\* the string whose opening quote is before position i
RECURSIVE JsonStringBody(_, _, _)
JsonStringBody(s, i, acc) ==
    IF i > Len(s) THEN JFail
    ELSE IF s[i] = "\"" THEN JOk(acc, i + 1)
    ELSE IF s[i] = "\\"
         THEN IF i + 1 <= Len(s) /\ s[i + 1] \in Escapes
              THEN JsonStringBody(s, i + 2, Append(acc, Unescape(s[i + 1])))
              ELSE JFail
    ELSE IF s[i] \in {"\n", "\t", "\r"} THEN JFail   \* control character
    ELSE JsonStringBody(s, i + 1, Append(acc, s[i]))

JsonNumber(s, i) ==
    LET neg == i <= Len(s) /\ s[i] = "-"
        b == IF neg THEN i + 1 ELSE i
        e == DigitsEnd(s, b)
        \* 0 | [1-9]\d*: after a leading 0 the integer part is over
        ie == IF b <= Len(s) /\ s[b] = "0" THEN b + 1 ELSE e
        fe == IF ie + 1 <= Len(s) /\ s[ie] = "." THEN DigitsEnd(s, ie + 1) ELSE ie
        hasFrac == fe > ie + 1
        stop == IF hasFrac THEN fe ELSE ie
        v == ToFloat(SubSeq(s, b, stop - 1))
    IN IF ie = b THEN JFail
       ELSE JOk(Number(IF neg THEN NumNeg(v) ELSE v), stop)

StartsAt(s, i, word) ==
    i + Len(word) - 1 <= Len(s) /\ SubSeq(s, i, i + Len(word) - 1) = word

RECURSIVE JsonValue(_, _)
RECURSIVE JsonMembers(_, _, _)
RECURSIVE JsonElements(_, _, _)

\* the members of an object after its '{' or after a ',': i is at a key
JsonMembers(s, i, dict) ==
    IF ~(i <= Len(s) /\ s[i] = "\"") THEN JFail
    ELSE LET key == JsonStringBody(s, i + 1, <<>>)
         IN IF ~key.ok THEN JFail
            ELSE LET c == SkipWs(s, key.pos)
                 IN IF ~(c <= Len(s) /\ s[c] = ":") THEN JFail
                    ELSE LET v == JsonValue(s, SkipWs(s, c + 1))
                         IN IF ~v.ok THEN JFail
                            ELSE LET d == DictSet(dict, key.val, v.val)
                                     n == SkipWs(s, v.pos)
                                 IN IF n > Len(s) THEN JFail
                                    ELSE IF s[n] = "}" THEN JOk(d, n + 1)
                                    ELSE IF s[n] = "," THEN JsonMembers(s, SkipWs(s, n + 1), d)
                                    ELSE JFail

\* the elements of an array after its '[' or after a ','
JsonElements(s, i, xs) ==
    LET v == JsonValue(s, i)
    IN IF ~v.ok THEN JFail
       ELSE LET n == SkipWs(s, v.pos)
            IN IF n > Len(s) THEN JFail
               ELSE IF s[n] = "]" THEN JOk(List(Append(xs, v.val)), n + 1)
               ELSE IF s[n] = "," THEN JsonElements(s, SkipWs(s, n + 1), Append(xs, v.val))
               ELSE JFail

JsonValue(s, i) ==
    IF i > Len(s) THEN JFail
    ELSE IF s[i] = "{"
         THEN LET n == SkipWs(s, i + 1)
              IN IF n <= Len(s) /\ s[n] = "}" THEN JOk(EmptyDict, n + 1)
                 ELSE JsonMembers(s, n, EmptyDict)
    ELSE IF s[i] = "["
         THEN LET n == SkipWs(s, i + 1)
              IN IF n <= Len(s) /\ s[n] = "]" THEN JOk(List(<<>>), n + 1)
                 ELSE JsonElements(s, n, <<>>)
    ELSE IF s[i] = "\""
         THEN LET str == JsonStringBody(s, i + 1, <<>>)
              IN IF str.ok THEN JOk(Str(str.val), str.pos) ELSE JFail
    ELSE IF StartsAt(s, i, <<"n","u","l","l">>) THEN JOk(Null, i + 4)
    ELSE IF StartsAt(s, i, <<"t","r","u","e">>) THEN JOk(Bool(TRUE), i + 4)
    ELSE IF StartsAt(s, i, <<"f","a","l","s","e">>) THEN JOk(Bool(FALSE), i + 5)
    ELSE JsonNumber(s, i)

\* json.loads(s): ok is FALSE where it raises json.JSONDecodeError
JsonLoads(s) ==
    LET v == JsonValue(s, SkipWs(s, 1))
    IN IF v.ok /\ SkipWs(s, v.pos) > Len(s) THEN [ok |-> TRUE, val |-> v.val] ELSE JFail

----------------------------------------------------------------------------
(* SolidWorksCommandParser.__init__                                        *)

SupportedActions ==
    << <<"c","r","e","a","t","e","_","f","e","a","t","u","r","e">>, <<"c","r","e","a","t","e","_","p","a","r","t">>, <<"c","r","e","a","t","e">>, <<"a","d","d">>,
       <<"m","o","d","i","f","y","_","f","e","a","t","u","r","e">>, <<"m","o","d","i","f","y">>, <<"e","d","i","t">>, <<"a","n","a","l","y","z","e">>, <<"r","e","v","i","e","w">>,
       <<"d","e","l","e","t","e">>, <<"r","e","m","o","v","e">> >>

SupportedTypes ==
    << <<"b","o","x">>, <<"r","e","c","t","a","n","g","l","e">>, <<"r","e","c","t","a","n","g","u","l","a","r">>, <<"b","l","o","c","k">>, <<"c","u","b","e">>,
       <<"c","y","l","i","n","d","e","r">>, <<"c","y","l","i","n","d","r","i","c","a","l">>, <<"r","o","d">>, <<"c","i","r","c","l","e">>,
       <<"h","o","l","e">>, <<"s","i","m","p","l","e","_","h","o","l","e">>,
       <<"t","h","r","e","a","d","e","d","_","h","o","l","e">>, <<"t","a","p","p","e","d","_","h","o","l","e">>,
       <<"c","o","u","n","t","e","r","b","o","r","e">>, <<"c","o","u","n","t","e","r","b","o","r","e","_","h","o","l","e">>,
       <<"c","o","u","n","t","e","r","s","i","n","k">>, <<"c","o","u","n","t","e","r","s","i","n","k","_","h","o","l","e">>,
       <<"f","i","l","l","e","t">>, <<"r","o","u","n","d">>,
       <<"c","h","a","m","f","e","r">>,
       <<"e","x","t","r","u","s","i","o","n">>, <<"e","x","t","r","u","d","e">>, <<"b","o","s","s">>,
       <<"c","u","t">>, <<"c","u","t","_","e","x","t","r","u","d","e">>, <<"p","o","c","k","e","t">>,
       <<"p","a","t","t","e","r","n">>, <<"l","i","n","e","a","r","_","p","a","t","t","e","r","n">>,
       <<"c","i","r","c","u","l","a","r","_","p","a","t","t","e","r","n">>,
       <<"s","h","e","l","l">>,
       <<"d","i","m","e","n","s","i","o","n">>, <<"s","i","z","e">>, <<"l","e","n","g","t","h">>,
       <<"s","c","a","l","e">> >>

\* the keys of self.thread_sizes, each with its tap drill size
ThreadSizes ==
    << <<<<"M","2">>, ToFloat(<<"1",".","6">>)>>, <<<<"M","2",".","5">>, ToFloat(<<"2",".","0","5">>)>>,
       <<<<"M","3">>, ToFloat(<<"2",".","5">>)>>, <<<<"M","4">>, ToFloat(<<"3",".","3">>)>>,
       <<<<"M","5">>, ToFloat(<<"4",".","2">>)>>, <<<<"M","6">>, ToFloat(<<"5",".","0">>)>>,
       <<<<"M","8">>, ToFloat(<<"6",".","8">>)>>, <<<<"M","1","0">>, ToFloat(<<"8",".","5">>)>>,
       <<<<"M","1","2">>, ToFloat(<<"1","0",".","2">>)>>, <<<<"M","1","4">>, ToFloat(<<"1","2",".","0">>)>>,
       <<<<"M","1","6">>, ToFloat(<<"1","4",".","0">>)>>, <<<<"M","2","0">>, ToFloat(<<"1","7",".","5">>)>> >>

----------------------------------------------------------------------------
(* _extract_all_json                                                       *)

\* ```(?:json)?\s*(\{[^`]*?\})\s*```
code_block_pattern ==
    Cat(<< Lit(<<BT, BT, BT>>), Opt(Lit(<<"j","s","o","n">>)), Star(Chr(Space)),
           Grp(1, Cat(<<Lit(<<"{">>), LazyStar(NotChr({BT})), Lit(<<"}">>)>>)),
           Star(Chr(Space)), Lit(<<BT, BT, BT>>) >>)

\* the indices of text that hold a brace, in increasing order: the loop
\* over enumerate(text) does nothing at any other character
BraceIndices(text) ==
    LET at == {i \in 1..Len(text) : text[i] \in {"{", "}"}}
    IN [k \in 1..Cardinality(at) |->
           CHOOSE i \in at : Cardinality({j \in at : j < i}) = k - 1]

\* a faulty StartIdx: every '{' starts a candidate
StartIdxInner(brace_count, start_idx, i) == i

\* start_idx after a '{' at index i (lines 142-143)
StartIdx(brace_count, start_idx, i) == IF brace_count = 0 THEN i ELSE start_idx

\* the loop over enumerate(text), from the k-th brace on; start_idx is 0
\* where the source has None
RECURSIVE BraceScan(_, _, _, _, _, _)
BraceScan(text, at, k, brace_count, start_idx, json_blocks) ==
    IF k > Len(at) THEN json_blocks
    ELSE LET i == at[k]
         IN IF text[i] = "{"
            THEN BraceScan(text, at, k + 1, brace_count + 1,
                           StartIdx(brace_count, start_idx, i), json_blocks)
            ELSE IF brace_count - 1 = 0 /\ start_idx # 0
                 THEN LET json_str == SubSeq(text, start_idx, i)
                      IN BraceScan(text, at, k + 1, brace_count - 1, 0,
                                   IF ~InList(json_str, json_blocks)
                                   THEN Append(json_blocks, json_str)
                                   ELSE json_blocks)
                 ELSE BraceScan(text, at, k + 1, brace_count - 1, start_idx, json_blocks)

_extract_all_json(text) ==
    BraceScan(text, BraceIndices(text), 1, 0, 0, FindAll(code_block_pattern, text))

----------------------------------------------------------------------------
(* _validate_command.  A call returns [raised |-> FALSE, val |-> ...] or   *)
(* raises: [raised |-> TRUE, exc |-> ...].                                 *)

Return(v) == [raised |-> FALSE, val |-> v]
Raise(type, msg) == [raised |-> TRUE, exc |-> [type |-> type, msg |-> msg]]

\* str(e) of the AttributeError that v.lower() raises (a number read by
\* json.loads is an int: the texts of this model hold no fraction there)
NoLower(v) ==
    CASE v.k = "null" -> "'NoneType' object has no attribute 'lower'"
      [] v.k = "num" -> "'int' object has no attribute 'lower'"
      [] v.k = "bool" -> "'bool' object has no attribute 'lower'"
      [] v.k = "list" -> "'list' object has no attribute 'lower'"
      [] v.k = "dict" -> "'dict' object has no attribute 'lower'"

\* a faulty PartialMatch: only an action that holds a supported one matches
RECURSIVE PartialMatchHolds(_, _, _)
PartialMatchHolds(actions, k, action) ==
    IF k > Len(actions) THEN FALSE
    ELSE IF Contains(actions[k], action) THEN TRUE
    ELSE PartialMatchHolds(actions, k + 1, action)

\* for supported in actions[k..]: if supported in action or action in supported
RECURSIVE PartialMatch(_, _, _)
PartialMatch(actions, k, action) ==
    IF k > Len(actions) THEN FALSE
    ELSE IF Contains(actions[k], action) \/ Contains(action, actions[k]) THEN TRUE
    ELSE PartialMatch(actions, k + 1, action)

\* a faulty _validate_command: the action is not lower-cased
_validate_command_cased(self, command) ==
    IF command.k # "dict" THEN Return(FALSE)
    ELSE LET got == DictGet(command, <<"a","c","t","i","o","n">>, Str(<<>>))
         IN IF got.k # "str"
            THEN Raise("AttributeError", NoLower(got))
            ELSE IF got.s = <<>> THEN Return(FALSE)
                 ELSE IF ~InList(got.s, self.supported_actions)
                      THEN Return(PartialMatch(self.supported_actions, 1, got.s))
                 ELSE Return(TRUE)

_validate_command(self, command) ==
    IF command.k # "dict" THEN Return(FALSE)
    ELSE LET got == DictGet(command, <<"a","c","t","i","o","n">>, Str(<<>>))
         IN IF got.k # "str"
            THEN Raise("AttributeError", NoLower(got))
            ELSE LET action == Lower(got.s)
                 IN IF action = <<>> THEN Return(FALSE)
                    ELSE IF ~InList(action, self.supported_actions)
                         THEN Return(PartialMatch(self.supported_actions, 1, action))
                    ELSE Return(TRUE)

----------------------------------------------------------------------------
(* The extraction helpers of the inferrer                                  *)

\* \d+(?:\.\d+)?
NumberRe == Cat(<<Plus(Chr(Digit)), Opt(Cat(<<Lit(<<".">>), Plus(Chr(Digit))>>))>>)

\* (?:mm|cm|m|in)?
OptUnit == Opt(Alt(<<Lit(<<"m","m">>), Lit(<<"c","m">>), Lit(<<"m">>), Lit(<<"i","n">>)>>))

\* \s*
Ws == Star(Chr(Space))

\* [xX×]
Times == Chr({"x", "X", "×"})

\* a value is falsy: None, or the number 0
Falsy(v) == v = None \/ ~NumTruthy(v)

\* a or b, on values
Or(a, b) == IF Falsy(a) THEN b ELSE a

\* the three patterns of _extract_single_dimension for a name
NamedPatterns(name) ==
    << Cat(<<Lit(name), Ws, Opt(Chr({":", "="})), Ws, Grp(1, NumberRe), Ws, OptUnit>>),
       Cat(<<Grp(1, NumberRe), Ws, OptUnit, Ws, Lit(name)>>),
       Cat(<<Lit(name), Plus(Chr(Space)), Opt(Cat(<<Lit(<<"o","f">>), Plus(Chr(Space))>>)),
             Grp(1, NumberRe), Ws, OptUnit>>) >>

\* (\d+(?:\.\d+)?)\s*(mm|cm|m|in|inch)
AnyNumberWithUnit ==
    Cat(<<Grp(1, NumberRe), Ws,
          Grp(2, Alt(<<Lit(<<"m","m">>), Lit(<<"c","m">>), Lit(<<"m">>), Lit(<<"i","n">>), Lit(<<"i","n","c","h">>)>>))>>)

\* group 1 of the match m as a result, or else the result rest
GroupOr(m, s, rest) == IF m.found THEN [found |-> TRUE, str |-> Group(m, s, 1)] ELSE rest

\* for pattern in patterns[k..]: the group of the first pattern that matches
RECURSIVE FirstPattern(_, _, _)
FirstPattern(patterns, k, s) ==
    IF k > Len(patterns) THEN NoMatch
    ELSE GroupOr(Search(patterns[k], 1, s), s, FirstPattern(patterns, k + 1, s))

\* float(match.group(1)) of a result, or else the value rest
FloatOr(found, rest) == IF found.found THEN ToFloat(found.str) ELSE rest

_extract_single_dimension(text, name) ==
    FloatOr(IF name # <<>> THEN FirstPattern(NamedPatterns(name), 1, Lower(text)) ELSE NoMatch,
            FloatOr(GroupOr(Search(AnyNumberWithUnit, 2, Lower(text)), Lower(text), NoMatch),
                    None))

CountPatterns ==
    << \* (\d+)\s*(?:x\s*)?(?:holes?|threaded|tapped)
       Cat(<<Grp(1, Plus(Chr(Digit))), Ws, Opt(Cat(<<Lit(<<"x">>), Ws>>)),
             Alt(<<Cat(<<Lit(<<"h","o","l","e">>), Opt(Lit(<<"s">>))>>), Lit(<<"t","h","r","e","a","d","e","d">>), Lit(<<"t","a","p","p","e","d">>)>>)>>),
       \* (?:add|create|make)\s+(\d+)
       Cat(<<Alt(<<Lit(<<"a","d","d">>), Lit(<<"c","r","e","a","t","e">>), Lit(<<"m","a","k","e">>)>>), Plus(Chr(Space)),
             Grp(1, Plus(Chr(Digit)))>>),
       \* count\s*[:=]?\s*(\d+)
       Cat(<<Lit(<<"c","o","u","n","t">>), Ws, Opt(Chr({":", "="})), Ws, Grp(1, Plus(Chr(Digit)))>>),
       \* (\d+)\s*(?:of|x)\s*(?:m\d+)
       Cat(<<Grp(1, Plus(Chr(Digit))), Ws, Alt(<<Lit(<<"o","f">>), Lit(<<"x">>)>>), Ws,
             Lit(<<"m">>), Plus(Chr(Digit))>>) >>

\* int(match.group(1)) of a result, or else 1
IntOr1(found) == IF found.found THEN ToInt(found.str) ELSE Num(1)

\* a faulty _extract_count: "add|create|make <N>" is tried before "<N> holes"
_extract_count_verb_first(text) ==
    IntOr1(FirstPattern(<<CountPatterns[2], CountPatterns[1], CountPatterns[3],
                          CountPatterns[4]>>, 1, Lower(text)))

_extract_count(text) == IntOr1(FirstPattern(CountPatterns, 1, Lower(text)))

\* (\d+(?:\.\d+)?)\s*(?:mm|cm|m|in)?\s*[xX×]\s*(\d+(?:\.\d+)?)\s*(?:mm|cm|m|in)?
\*   \s*(?:[xX×]\s*(\d+(?:\.\d+)?)\s*(?:mm|cm|m|in)?)?
DimensionsPattern ==
    Cat(<< Grp(1, NumberRe), Ws, OptUnit, Ws, Times, Ws,
           Grp(2, NumberRe), Ws, OptUnit, Ws,
           Opt(Cat(<<Times, Ws, Grp(3, NumberRe), Ws, OptUnit>>)) >>)

\* the unit detection of _extract_dimensions, on text.lower()
DetectUnit(low) ==
    IF Contains(<<"c","m">>, low) THEN <<"c","m">>
    ELSE IF Contains(<<" ","m"," ">>, low) \/ EndsWith(low, <<" ","m">>) THEN <<"m">>
    ELSE IF Contains(<<"i","n">>, low) \/ Contains(<<"i","n","c","h">>, low) THEN <<"i","n">>
    ELSE <<"m","m">>

\* dimensions[key] = value if value is truthy
SetIfTruthy(dimensions, key, value) ==
    IF ~Falsy(value) THEN DictSet(dimensions, key, Number(value)) ELSE dimensions

\* the loop over ["width", "height", "depth", "length"], from the k-th name on
RECURSIVE NamedDimensions(_, _, _, _)
NamedDimensions(text, names, k, dimensions) ==
    IF k > Len(names) THEN dimensions
    ELSE NamedDimensions(text, names, k + 1,
             SetIfTruthy(dimensions, IF names[k] = <<"l","e","n","g","t","h">> THEN <<"w","i","d","t","h">> ELSE names[k],
                         _extract_single_dimension(text, names[k])))

\* a faulty MatchedDimensions: the third number is not read, depth is width
MatchedDimensionsSquare(match, text) ==
    DictOf(<< <<<<"w","i","d","t","h">>, Number(ToFloat(Group(match, text, 1)))>>,
              <<<<"h","e","i","g","h","t">>, Number(ToFloat(Group(match, text, 2)))>>,
              <<<<"d","e","p","t","h">>, Number(ToFloat(Group(match, text, 1)))>>,
              <<<<"u","n","i","t","s">>, Str(DetectUnit(Lower(text)))>> >>)

\* lines 365-384: the dimensions of a match of the WxHxD pattern
MatchedDimensions(match, text) ==
    DictOf(<< <<<<"w","i","d","t","h">>, Number(ToFloat(Group(match, text, 1)))>>,
              <<<<"h","e","i","g","h","t">>, Number(ToFloat(Group(match, text, 2)))>>,
              <<<<"d","e","p","t","h">>, Number(IF ~GroupIsNone(match, 3) /\ Group(match, text, 3) # <<>>
                                  THEN ToFloat(Group(match, text, 3))
                                  ELSE ToFloat(Group(match, text, 1)))>>,
              <<<<"u","n","i","t","s">>, Str(DetectUnit(Lower(text)))>> >>)

\* lines 396-400: the named dimensions, with the default unit, or None
WithUnits(dimensions) ==
    IF DOMAIN dimensions.d # {}
    THEN IF <<"u","n","i","t","s">> \in DOMAIN dimensions.d THEN dimensions
         ELSE DictSet(dimensions, <<"u","n","i","t","s">>, Str(<<"m","m">>))
    ELSE None

\* lines 365-400
DimensionsOf(match, text) ==
    IF match.found THEN MatchedDimensions(match, text)
    ELSE WithUnits(NamedDimensions(text, <<<<"w","i","d","t","h">>, <<"h","e","i","g","h","t">>, <<"d","e","p","t","h">>, <<"l","e","n","g","t","h">>>>,
                                   1, EmptyDict))

_extract_dimensions(text) == DimensionsOf(Search(DimensionsPattern, 3, text), text)

\* lines 409-417
CylinderDimensions(diameter, radius, height) ==
    DictOf(<< <<<<"d","i","a","m","e","t","e","r">>, Number(IF ~Falsy(radius) /\ Falsy(diameter) THEN NumTimes2(radius)
                                     ELSE IF Falsy(diameter) THEN Num(50)
                                     ELSE diameter)>>,
              <<<<"h","e","i","g","h","t">>, Number(height)>>,
              <<<<"u","n","i","t","s">>, Str(<<"m","m">>)>> >>)

_extract_cylinder_dimensions(text) ==
    CylinderDimensions(_extract_single_dimension(text, <<"d","i","a","m","e","t","e","r">>),
                       _extract_single_dimension(text, <<"r","a","d","i","u","s">>),
                       Or(Or(_extract_single_dimension(text, <<"h","e","i","g","h","t">>),
                             _extract_single_dimension(text, <<"l","e","n","g","t","h">>)), Num(100)))

----------------------------------------------------------------------------
(* _infer_command                                                          *)

\* str.upper()
UpperStr(s) ==
    [k \in 1..Len(s) |->
        IF \E j \in 1..26 : LowerAZ[j] = s[k]
        THEN UpperAZ[CHOOSE j \in 1..26 : LowerAZ[j] = s[k]] ELSE s[k]]

\* an f-string: its literal pieces and the values put between them
FStr(pieces) == [k |-> "fstr", pieces |-> pieces]

\* \b(m\d+(?:\.\d+)?)\b
ThreadPattern ==
    Cat(<< WordBoundary,
           Grp(1, Cat(<<Lit(<<"m">>), Plus(Chr(Digit)),
                        Opt(Cat(<<Lit(<<".">>), Plus(Chr(Digit))>>))>>)),
           WordBoundary >>)

Command(action, type, parameters, description) ==
    DictOf(<< <<<<"a","c","t","i","o","n">>, Str(action)>>, <<<<"t","y","p","e">>, Str(type)>>,
              <<<<"p","a","r","a","m","e","t","e","r","s">>, parameters>>, <<<<"d","e","s","c","r","i","p","t","i","o","n">>, description>> >>)

\* lines 184-198
ThreadedHole(thread_size, count, depth) ==
    Command(<<"c","r","e","a","t","e">>, <<"t","h","r","e","a","d","e","d","_","h","o","l","e">>,
        DictOf(<< <<<<"t","h","r","e","a","d","_","s","i","z","e">>, Str(thread_size)>>, <<<<"d","e","p","t","h">>, Number(depth)>>,
                  <<<<"c","o","u","n","t">>, Number(count)>>, <<<<"u","n","i","t","s">>, Str(<<"m","m">>)>> >>),
        FStr(<<"Create ", count, "x ", thread_size, " threaded hole(s)">>))

\* lines 209-218
Modify(delta) ==
    Command(<<"m","o","d","i","f","y">>, <<"d","i","m","e","n","s","i","o","n">>,
        DictOf(<< <<<<"d","e","l","t","a">>, Number(delta)>>, <<<<"u","n","i","t","s">>, Str(<<"m","m">>)>> >>),
        FStr(<<"Modify dimension by ", delta, "mm">>))

\* a faulty ModifyDimension: the words for shrinking are not looked for
ModifyDimensionGrow(text_lower, found, later) ==
    IF ~Falsy(found) THEN Modify(NumAbs(found)) ELSE later

\* lines 204-218: the modification by the number found, or else the later rules
ModifyDimension(text_lower, found, later) ==
    IF ~Falsy(found)
    THEN Modify(IF AnyWordIn(<<<<"s","h","o","r","t","e","r">>, <<"n","a","r","r","o","w","e","r">>, <<"t","h","i","n","n","e","r">>, <<"s","m","a","l","l","e","r">>>>, text_lower)
                THEN NumNeg(NumAbs(found)) ELSE NumAbs(found))
    ELSE later

\* lines 222-230
CreateBox(found) ==
    Command(<<"c","r","e","a","t","e">>, <<"b","o","x">>,
        IF found = None
        THEN DictOf(<< <<<<"w","i","d","t","h">>, Number(Num(100))>>, <<<<"h","e","i","g","h","t">>, Number(Num(100))>>,
                       <<<<"d","e","p","t","h">>, Number(Num(50))>>, <<<<"u","n","i","t","s">>, Str(<<"m","m">>)>> >>)
        ELSE found,
        Str(<<"C","r","e","a","t","e"," ","b","o","x">>))

\* lines 234-240
CreateCylinder(dimensions) ==
    Command(<<"c","r","e","a","t","e">>, <<"c","y","l","i","n","d","e","r">>, dimensions, Str(<<"C","r","e","a","t","e"," ","c","y","l","i","n","d","e","r">>))

\* lines 244-258
CreateHole(diameter, depth, through) ==
    Command(<<"c","r","e","a","t","e">>, <<"h","o","l","e">>,
        DictOf(<< <<<<"d","i","a","m","e","t","e","r">>, Number(diameter)>>, <<<<"d","e","p","t","h">>, Number(depth)>>,
                  <<<<"t","h","r","o","u","g","h","_","a","l","l">>, Bool(through)>>, <<<<"u","n","i","t","s">>, Str(<<"m","m">>)>> >>),
        FStr(<<"Create Ø", diameter, "mm hole">>))

\* lines 262-271
CreateFillet(radius) ==
    Command(<<"c","r","e","a","t","e">>, <<"f","i","l","l","e","t">>,
        DictOf(<< <<<<"r","a","d","i","u","s">>, Number(radius)>>, <<<<"u","n","i","t","s">>, Str(<<"m","m">>)>> >>),
        FStr(<<"Create R", radius, "mm fillet">>))

\* lines 275-285
CreateChamfer(distance) ==
    Command(<<"c","r","e","a","t","e">>, <<"c","h","a","m","f","e","r">>,
        DictOf(<< <<<<"d","i","s","t","a","n","c","e">>, Number(distance)>>, <<<<"a","n","g","l","e">>, Number(Num(45))>>,
                  <<<<"u","n","i","t","s">>, Str(<<"m","m">>)>> >>),
        FStr(<<"Create ", distance, "mm chamfer">>))

\* lines 289-298
CreateShell(thickness) ==
    Command(<<"c","r","e","a","t","e">>, <<"s","h","e","l","l">>,
        DictOf(<< <<<<"t","h","i","c","k","n","e","s","s">>, Number(thickness)>>, <<<<"u","n","i","t","s">>, Str(<<"m","m">>)>> >>),
        FStr(<<"Create shell with ", thickness, "mm wall">>))

\* lines 302-311
CreateExtrusion(depth) ==
    Command(<<"c","r","e","a","t","e">>, <<"e","x","t","r","u","s","i","o","n">>,
        DictOf(<< <<<<"d","e","p","t","h">>, Number(depth)>>, <<<<"u","n","i","t","s">>, Str(<<"m","m">>)>> >>),
        FStr(<<"Create extrusion ", depth, "mm">>))

\* lines 315-326
CreateCut(depth, through) ==
    Command(<<"c","r","e","a","t","e">>, <<"c","u","t">>,
        DictOf(<< <<<<"d","e","p","t","h">>, Number(depth)>>, <<<<"t","h","r","o","u","g","h","_","a","l","l">>, Bool(through)>>,
                  <<<<"u","n","i","t","s">>, Str(<<"m","m">>)>> >>),
        Str(<<"C","r","e","a","t","e"," ","c","u","t">>))

\* lines 330-355
CreatePattern(count, spacing, circular) ==
    IF circular
    THEN Command(<<"c","r","e","a","t","e">>, <<"c","i","r","c","u","l","a","r","_","p","a","t","t","e","r","n">>,
             DictOf(<< <<<<"c","o","u","n","t">>, Number(count)>>, <<<<"a","n","g","l","e">>, Number(Num(360))>> >>),
             FStr(<<"Create circular pattern with ", count, " instances">>))
    ELSE Command(<<"c","r","e","a","t","e">>, <<"l","i","n","e","a","r","_","p","a","t","t","e","r","n">>,
             DictOf(<< <<<<"c","o","u","n","t","_","x">>, Number(count)>>, <<<<"c","o","u","n","t","_","y">>, Number(Num(1))>>,
                       <<<<"s","p","a","c","i","n","g","_","x">>, Number(spacing)>>, <<<<"s","p","a","c","i","n","g","_","y">>, Number(spacing)>>,
                       <<<<"u","n","i","t","s">>, Str(<<"m","m">>)>> >>),
             FStr(<<"Create linear pattern ", count, "x1">>))

Comparatives ==
    <<<<"l","o","n","g","e","r">>, <<"s","h","o","r","t","e","r">>, <<"w","i","d","e","r">>, <<"n","a","r","r","o","w","e","r">>, <<"t","h","i","c","k","e","r">>, <<"t","h","i","n","n","e","r">>,
      <<"t","a","l","l","e","r">>, <<"h","i","g","h","e","r">>, <<"d","e","e","p","e","r">>>>

\* faulty LaterRules: the simple hole is made whether or not the text holds a
\* thread size
LaterRulesAnyHole(text, text_lower, thread_match) ==
    IF AnyWordIn(<<<<"b","o","x">>, <<"c","u","b","e">>, <<"r","e","c","t","a","n","g","u","l","a","r">>, <<"b","l","o","c","k">>, <<"p","l","a","t","e">>>>, text_lower)
    THEN CreateBox(_extract_dimensions(text))
    ELSE IF AnyWordIn(<<<<"c","y","l","i","n","d","e","r">>, <<"r","o","d">>, <<"t","u","b","e">>, <<"p","i","p","e">>, <<"r","o","u","n","d">>>>, text_lower)
    THEN CreateCylinder(_extract_cylinder_dimensions(text))
    ELSE IF AnyWordIn(<<<<"h","o","l","e">>, <<"d","r","i","l","l">>, <<"b","o","r","e">>>>, text_lower)
    THEN CreateHole(Or(_extract_single_dimension(text, <<"d","i","a","m","e","t","e","r">>), Num(10)),
                    Or(_extract_single_dimension(text, <<"d","e","p","t","h">>), Num(20)),
                    Contains(<<"t","h","r","o","u","g","h">>, text_lower))
    ELSE IF AnyWordIn(<<<<"f","i","l","l","e","t">>, <<"r","o","u","n","d">>, <<"r","a","d","i","u","s">>>>, text_lower)
            /\ ~Contains(<<"c","o","r","n","e","r">>, text_lower)
    THEN CreateFillet(Or(Or(_extract_single_dimension(text, <<"r","a","d","i","u","s">>),
                            _extract_single_dimension(text, <<>>)), Num(5)))
    ELSE IF Contains(<<"c","h","a","m","f","e","r">>, text_lower)
    THEN CreateChamfer(Or(Or(_extract_single_dimension(text, <<"d","i","s","t","a","n","c","e">>),
                             _extract_single_dimension(text, <<>>)), Num(2)))
    ELSE IF Contains(<<"s","h","e","l","l">>, text_lower) \/ Contains(<<"h","o","l","l","o","w">>, text_lower)
    THEN CreateShell(Or(Or(_extract_single_dimension(text, <<"t","h","i","c","k","n","e","s","s">>),
                           _extract_single_dimension(text, <<"w","a","l","l">>)), Num(2)))
    ELSE IF AnyWordIn(<<<<"e","x","t","r","u","d","e">>, <<"e","x","t","r","u","s","i","o","n">>, <<"b","o","s","s">>>>, text_lower)
    THEN CreateExtrusion(Or(Or(_extract_single_dimension(text, <<"d","e","p","t","h">>),
                               _extract_single_dimension(text, <<>>)), Num(25)))
    ELSE IF AnyWordIn(<<<<"c","u","t">>, <<"p","o","c","k","e","t">>, <<"r","e","m","o","v","e">>>>, text_lower)
    THEN CreateCut(Or(Or(_extract_single_dimension(text, <<"d","e","p","t","h">>),
                         _extract_single_dimension(text, <<>>)), Num(10)),
                   Contains(<<"t","h","r","o","u","g","h">>, text_lower))
    ELSE IF Contains(<<"p","a","t","t","e","r","n">>, text_lower)
    THEN CreatePattern(_extract_count(text),
                       Or(_extract_single_dimension(text, <<"s","p","a","c","i","n","g">>), Num(20)),
                       Contains(<<"c","i","r","c","u","l","a","r">>, text_lower) \/ Contains(<<"r","a","d","i","a","l">>, text_lower))
    ELSE None

\* the rules after the dimension modification, lines 220-357
LaterRules(text, text_lower, thread_match) ==
    IF AnyWordIn(<<<<"b","o","x">>, <<"c","u","b","e">>, <<"r","e","c","t","a","n","g","u","l","a","r">>, <<"b","l","o","c","k">>, <<"p","l","a","t","e">>>>, text_lower)
    THEN CreateBox(_extract_dimensions(text))
    ELSE IF AnyWordIn(<<<<"c","y","l","i","n","d","e","r">>, <<"r","o","d">>, <<"t","u","b","e">>, <<"p","i","p","e">>, <<"r","o","u","n","d">>>>, text_lower)
    THEN CreateCylinder(_extract_cylinder_dimensions(text))
    ELSE IF AnyWordIn(<<<<"h","o","l","e">>, <<"d","r","i","l","l">>, <<"b","o","r","e">>>>, text_lower) /\ ~thread_match.found
    THEN CreateHole(Or(_extract_single_dimension(text, <<"d","i","a","m","e","t","e","r">>), Num(10)),
                    Or(_extract_single_dimension(text, <<"d","e","p","t","h">>), Num(20)),
                    Contains(<<"t","h","r","o","u","g","h">>, text_lower))
    ELSE IF AnyWordIn(<<<<"f","i","l","l","e","t">>, <<"r","o","u","n","d">>, <<"r","a","d","i","u","s">>>>, text_lower)
            /\ ~Contains(<<"c","o","r","n","e","r">>, text_lower)
    THEN CreateFillet(Or(Or(_extract_single_dimension(text, <<"r","a","d","i","u","s">>),
                            _extract_single_dimension(text, <<>>)), Num(5)))
    ELSE IF Contains(<<"c","h","a","m","f","e","r">>, text_lower)
    THEN CreateChamfer(Or(Or(_extract_single_dimension(text, <<"d","i","s","t","a","n","c","e">>),
                             _extract_single_dimension(text, <<>>)), Num(2)))
    ELSE IF Contains(<<"s","h","e","l","l">>, text_lower) \/ Contains(<<"h","o","l","l","o","w">>, text_lower)
    THEN CreateShell(Or(Or(_extract_single_dimension(text, <<"t","h","i","c","k","n","e","s","s">>),
                           _extract_single_dimension(text, <<"w","a","l","l">>)), Num(2)))
    ELSE IF AnyWordIn(<<<<"e","x","t","r","u","d","e">>, <<"e","x","t","r","u","s","i","o","n">>, <<"b","o","s","s">>>>, text_lower)
    THEN CreateExtrusion(Or(Or(_extract_single_dimension(text, <<"d","e","p","t","h">>),
                               _extract_single_dimension(text, <<>>)), Num(25)))
    ELSE IF AnyWordIn(<<<<"c","u","t">>, <<"p","o","c","k","e","t">>, <<"r","e","m","o","v","e">>>>, text_lower)
    THEN CreateCut(Or(Or(_extract_single_dimension(text, <<"d","e","p","t","h">>),
                         _extract_single_dimension(text, <<>>)), Num(10)),
                   Contains(<<"t","h","r","o","u","g","h">>, text_lower))
    ELSE IF Contains(<<"p","a","t","t","e","r","n">>, text_lower)
    THEN CreatePattern(_extract_count(text),
                       Or(_extract_single_dimension(text, <<"s","p","a","c","i","n","g">>), Num(20)),
                       Contains(<<"c","i","r","c","u","l","a","r">>, text_lower) \/ Contains(<<"r","a","d","i","a","l">>, text_lower))
    ELSE None

\* faulty Rules: the threaded hole is tried after the other rules
RulesThreadLast(text, text_lower, thread_match) ==
    IF LaterRules(text, text_lower, thread_match) # None
    THEN LaterRules(text, text_lower, thread_match)
    ELSE IF thread_match.found
            /\ AnyWordIn(<<<<"h","o","l","e">>, <<"t","h","r","e","a","d","e","d">>, <<"t","a","p">>, <<"t","h","r","e","a","d">>>>, text_lower)
    THEN ThreadedHole(UpperStr(Group(thread_match, text_lower, 1)), _extract_count(text),
                      Or(_extract_single_dimension(text, <<"d","e","p","t","h">>), Num(15)))
    ELSE None

\* the rules in the order of the source, lines 181-357
Rules(text, text_lower, thread_match) ==
    IF thread_match.found
       /\ AnyWordIn(<<<<"h","o","l","e">>, <<"t","h","r","e","a","d","e","d">>, <<"t","a","p">>, <<"t","h","r","e","a","d">>>>, text_lower)
    THEN ThreadedHole(UpperStr(Group(thread_match, text_lower, 1)), _extract_count(text),
                      Or(_extract_single_dimension(text, <<"d","e","p","t","h">>), Num(15)))
    ELSE IF AnyWordIn(Comparatives, text_lower)
    THEN ModifyDimension(text_lower, _extract_single_dimension(text, <<>>),
                         LaterRules(text, text_lower, thread_match))
    ELSE LaterRules(text, text_lower, thread_match)

_infer_command(text) == Rules(text, Lower(text), Search(ThreadPattern, 1, Lower(text)))

----------------------------------------------------------------------------
(* parse_response                                                          *)

\* a faulty Kept: the command is appended whatever the validation said
KeptAll(command, valid, valid_commands) ==
    IF valid.raised THEN valid ELSE Return(Append(valid_commands, command))

\* lines 72-74: the commands after the command of one block was validated
Kept(command, valid, valid_commands) ==
    IF valid.raised THEN valid
    ELSE Return(IF valid.val THEN Append(valid_commands, command) ELSE valid_commands)

\* a faulty Block: the error of json.loads is not caught in the loop
BlockStopping(self, loaded, valid_commands) ==
    IF ~loaded.ok THEN Raise("JSONDecodeError", "Expecting property name enclosed in double quotes")
    ELSE Kept(loaded.val, _validate_command(self, loaded.val), valid_commands)

\* lines 69-76: the body of the loop for a block, loaded
Block(self, loaded, valid_commands) ==
    IF ~loaded.ok THEN Return(valid_commands)
    ELSE Kept(loaded.val, _validate_command(self, loaded.val), valid_commands)

\* the loop over json_blocks, from the k-th block on (lines 68-76)
RECURSIVE ValidCommands(_, _, _, _)
ValidCommands(self, json_blocks, k, valid_commands) ==
    IF k > Len(json_blocks) \/ valid_commands.raised THEN valid_commands
    ELSE ValidCommands(self, json_blocks, k + 1,
             Block(self, JsonLoads(json_blocks[k]), valid_commands.val))

CouldNotParse == "Could not parse command from response"

\* a faulty Succeeded: command is the last command
SucceededLast(valid_commands, ai_response) ==
    [success |-> TRUE, command |-> valid_commands[Len(valid_commands)],
     commands |-> valid_commands, command_count |-> Len(valid_commands),
     description |-> DictGet(valid_commands[1], <<"d","e","s","c","r","i","p","t","i","o","n">>, Str(<<>>)),
     raw_response |-> ai_response]

\* lines 82-89
Succeeded(valid_commands, ai_response) ==
    [success |-> TRUE, command |-> valid_commands[1], commands |-> valid_commands,
     command_count |-> Len(valid_commands),
     description |-> DictGet(valid_commands[1], <<"d","e","s","c","r","i","p","t","i","o","n">>, Str(<<>>)),
     raw_response |-> ai_response]

\* lines 94-102
Inferred(inferred, ai_response) ==
    [success |-> TRUE, command |-> inferred, commands |-> <<inferred>>,
     command_count |-> 1, description |-> Str(ai_response),
     raw_response |-> ai_response, inferred |-> TRUE]

\* lines 105-113
NoCommand(ai_response) ==
    [success |-> FALSE, command |-> None, commands |-> <<>>, command_count |-> 0,
     description |-> Str(ai_response), raw_response |-> ai_response,
     error |-> <<CouldNotParse>>]

\* lines 115-124: except Exception as e
ParsingError(e, ai_response) ==
    [success |-> FALSE, command |-> None, commands |-> <<>>, command_count |-> 0,
     description |-> Str(ai_response), raw_response |-> ai_response,
     error |-> <<"Parsing error: ", e.msg>>]

\* lines 91-113
Fallback(inferred, ai_response) ==
    IF inferred # None THEN Inferred(inferred, ai_response) ELSE NoCommand(ai_response)

\* a faulty Outcome: the exception of the validation is not caught
OutcomeRaising(found, ai_response) ==
    IF found.raised THEN found
    ELSE IF found.val # <<>> THEN Succeeded(found.val, ai_response)
    ELSE Fallback(_infer_command(ai_response), ai_response)

\* a faulty Outcome: the inferrer is asked first, the commands found after
OutcomeInferring(found, ai_response) ==
    IF found.raised THEN ParsingError(found.exc, ai_response)
    ELSE IF _infer_command(ai_response) # None
    THEN Inferred(_infer_command(ai_response), ai_response)
    ELSE IF found.val # <<>> THEN Succeeded(found.val, ai_response)
    ELSE NoCommand(ai_response)

\* lines 78-124, after the loop
Outcome(found, ai_response) ==
    IF found.raised THEN ParsingError(found.exc, ai_response)
    ELSE IF found.val # <<>> THEN Succeeded(found.val, ai_response)
    ELSE Fallback(_infer_command(ai_response), ai_response)

parse_response(self, ai_response) ==
    Outcome(ValidCommands(self, _extract_all_json(ai_response), 1, Return(<<>>)), ai_response)

----------------------------------------------------------------------------
(* The callers.  A caller picks a method, puts its argument together from  *)
(* pieces of one family, calls, and takes the result.  A piece records     *)
(* what it is (kind, tags) beside its text, and for a JSON object the text *)
(* of the object.                                                          *)

MaxBlocks == 2   \* pieces of an AI response with JSON in it
MaxWords == 2    \* pieces of a plain sentence
MaxFrags == 2    \* fragments of an action string
MaxRequests == 1 \* whole requests

Piece(fam, kind, text, json, value, tags) ==
    [fam |-> fam, kind |-> kind, text |-> text, json |-> json, value |-> value, tags |-> tags]

\* a JSON object as it stands in the response, with the value it denotes
Bare(json, value, tags) == Piece("response", "bare", json, json, value, tags)
Fenced(open, json, close, value, tags) ==
    Piece("response", "fenced", <<BT, BT, BT>> \o open \o json \o close \o <<BT, BT, BT>>,
          json, value, tags)
Prose(text, tags) == Piece("response", "prose", text, <<>>, None, tags)
Words(text) == Piece("sentence", "words", text, <<>>, None, {})
Request(text) == Piece("request", "words", text, <<>>, None, {})
Frag(text) == Piece("action", "frag", text, <<>>, None, {})

\* the tag "valid" marks an object with a recognized action, "nested" one
\* with an object inside, "strbrace" one with a brace in a string value,
\* "brace" a prose with an unmatched brace
ResponsePieces ==
    { Bare(<<"{","\"","a","c","t","i","o","n","\"",":","\"","c","r","e","a","t","e","\"","}">>,
           DictOf(<< <<<<"a","c","t","i","o","n">>, Str(<<"c","r","e","a","t","e">>)>> >>), {"valid"}),
      Bare(<<"{","\"","a","c","t","i","o","n","\"",":"," ","\"","R","e","m","o","v","e","s","\"",","," ","\"","t","y","p","e","\"",":"," ","\"","h","o","l","e","\"","}">>,
           DictOf(<< <<<<"a","c","t","i","o","n">>, Str(<<"R","e","m","o","v","e","s">>)>>, <<<<"t","y","p","e">>, Str(<<"h","o","l","e">>)>> >>), {"valid"}),
      Bare(<<"{","\"","a","c","t","i","o","n","\"",":","\"","e","d","i","t","\"",",","\"","p","\"",":","{","\"","d","\"",":","1","}","}">>,
           DictOf(<< <<<<"a","c","t","i","o","n">>, Str(<<"e","d","i","t">>)>>,
                     <<<<"p">>, DictOf(<< <<<<"d">>, Number(Num(1))>> >>)>> >>), {"valid", "nested"}),
      Bare(<<"{","\"","a","\"",":"," ","{","\"","b","\"",":"," ","1","}","}">>,
           DictOf(<< <<<<"a">>, DictOf(<< <<<<"b">>, Number(Num(1))>> >>)>> >>), {"nested"}),
      Bare(<<"{","\"","a","c","t","i","o","n","\"",":","\"","a","d","d","\"",",","\"","d","\"",":","\"","}","\"","}">>,
           DictOf(<< <<<<"a","c","t","i","o","n">>, Str(<<"a","d","d">>)>>, <<<<"d">>, Str(<<"}">>)>> >>), {"valid", "strbrace"}),
      Bare(<<"{","\"","a","c","t","i","o","n","\"",":","\"","t","e","l","e","p","o","r","t","\"","}">>,
           DictOf(<< <<<<"a","c","t","i","o","n">>, Str(<<"t","e","l","e","p","o","r","t">>)>> >>), {}),
      Bare(<<"{","\"","a","c","t","i","o","n","\"",":","n","u","l","l","}">>,
           DictOf(<< <<<<"a","c","t","i","o","n">>, Null>> >>), {}),
      Fenced(<<"j","s","o","n","\n">>, <<"{","\"","a","c","t","i","o","n","\"",":","\"","a","d","d","\"","}">>, <<"\n">>,
             DictOf(<< <<<<"a","c","t","i","o","n">>, Str(<<"a","d","d">>)>> >>), {"valid"}),
      Fenced(<<>>, <<"{","\"","a","c","t","i","o","n","\"",":","\"","c","r","e","a","t","e","\"","}">>, <<>>,
             DictOf(<< <<<<"a","c","t","i","o","n">>, Str(<<"c","r","e","a","t","e">>)>> >>), {"valid"}),
      Prose(<<"{","o","o","p","s","}">>, {}),
      Prose(<<"o","k"," ","}"," ">>, {"brace"}),
      Prose(<<"s","e","e"," ","{"," ">>, {"brace"}),
      Prose(<<" ","t","h","e","n"," ","d","r","i","l","l"," ","a"," ","h","o","l","e"," ">>, {}) }

SentencePieces ==
    { Words(<<"C","r","e","a","t","e"," ","a"," ","b","o","x"," ","1","0","0","x","5","0","x","2","5","m","m">>),
      Words(<<"C","r","e","a","t","e"," ","a"," ","t","h","r","e","a","d","e","d"," ","M","6"," ","h","o","l","e",","," ","m","a","k","e"," ","i","t"," ","l","o","n","g","e","r">>),
      Words(<<"A","d","d"," ","1","0"," ","M","4"," ","t","h","r","e","a","d","e","d"," ","h","o","l","e","s">>),
      Words(<<"M","a","k","e"," ","i","t"," ","1","0","m","m"," ","l","o","n","g","e","r">>),
      Words(<<"h","e","l","l","o"," ","t","h","e","r","e">>),
      Words(<<" ","M","6">>),
      Words(<<" ","m","2",".","5">>),
      Words(<<" ","h","o","l","e">>),
      Words(<<" ","t","h","r","e","a","d","e","d">>),
      Words(<<" ","t","a","p">>),
      Words(<<" ","t","h","r","e","a","d">>),
      Words(<<" ","5","m","m"," ","s","h","o","r","t","e","r">>),
      Words(<<" ","b","o","x">>),
      Words(<<" ","c","y","l","i","n","d","e","r">>),
      Words(<<" ","f","i","l","l","e","t">>),
      Words(<<" ","c","u","t">>),
      Words(<<" ","p","a","t","t","e","r","n">>),
      Words(<<" ","d","r","i","l","l">>),
      Words(<<" ","w","i","d","e","r">>),
      Words(<<" ","0","m","m">>) }

\* whole requests, for the features and the values that no word of
\* SentencePieces asks for
RequestPieces ==
    { Request(<<"A","d","d"," ","a"," ","c","h","a","m","f","e","r">>), Request(<<"S","h","e","l","l"," ","i","t">>),
      Request(<<"E","x","t","r","u","d","e"," ","t","h","e"," ","s","k","e","t","c","h">>), Request(<<"M","a","k","e"," ","a"," ","c","i","r","c","u","l","a","r"," ","p","a","t","t","e","r","n">>),
      Request(<<"D","r","i","l","l"," ","a"," ","5","m","m"," ","h","o","l","e">>),
      Request(<<"c","y","l","i","n","d","e","r"," ","r","a","d","i","u","s"," ","1","0","m","m">>),
      Request(<<"c","y","l","i","n","d","e","r"," ","r","a","d","i","u","s"," ","1","0"," ","l","e","n","g","t","h"," ","7","0">>),
      Request(<<"c","y","l","i","n","d","e","r"," ","d","i","a","m","e","t","e","r"," ","3","0"," ","r","a","d","i","u","s"," ","1","0"," ","h","e","i","g","h","t"," ","8","0">>),
      Request(<<"T","a","p"," ","3"," ","o","f"," ","M","6">>),
      Request(<<"T","a","p"," ","3"," ","o","f"," ","M","6",","," ","c","o","u","n","t",":"," ","8">>),
      Request(<<"M","a","k","e"," ","3"," ","M","5"," ","t","a","p","s">>),
      Request(<<"A"," ","1","0","x","2","0","m","m"," ","p","l","a","t","e"," ","i","n"," ","s","t","e","e","l">>),
      Request(<<"B","o","r","e"," ","M","6"," ","a","n","d"," ","f","i","l","l","e","t"," ","i","t">>) }

ActionPieces ==
    { Frag(<<"d","e","l","e","t">>), Frag(<<"e">>), Frag(<<"i","n","g">>), Frag(<<"i","o","n">>), Frag(<<"d">>),
      Frag(<<"t","e","l","e","p","o","r","t">>), Frag(<<"C","r","e","a","t","e">>), Frag(<<"_","f","e","a","t","u","r","e">>), Frag(<<"u","n">>),
      Frag(<<"a","d","d">>), Frag(<<"x">>), Frag(<<"E","d","i","t">>) }

\* the pieces of the calls whose result a caller keeps to compare
RepeatPieces ==
    { p \in ResponsePieces \cup SentencePieces :
        p.text \in { <<"{","\"","a","c","t","i","o","n","\"",":","\"","t","e","l","e","p","o","r","t","\"","}">>,
                     <<"{","\"","a","c","t","i","o","n","\"",":"," ","\"","R","e","m","o","v","e","s","\"",","," ","\"","t","y","p","e","\"",":"," ","\"","h","o","l","e","\"","}">>,
                     <<" ","t","h","e","n"," ","d","r","i","l","l"," ","a"," ","h","o","l","e"," ">>,
                     <<"C","r","e","a","t","e"," ","a"," ","b","o","x"," ","1","0","0","x","5","0","x","2","5","m","m">>,
                     <<" ","M","6">> } }

Ops == {"parse_response", "_extract_all_json", "_validate_command"}

Pool(o) ==
    CASE o = "parse_response" -> ResponsePieces \cup SentencePieces \cup RequestPieces
      [] o = "_extract_all_json" -> ResponsePieces
      [] o = "_validate_command" -> ActionPieces

MaxPieces(fam) ==
    CASE fam = "response" -> MaxBlocks
      [] fam = "sentence" -> MaxWords
      [] fam = "request" -> MaxRequests
      [] fam = "action" -> MaxFrags

\* the text the pieces make up
RECURSIVE Text(_)
Text(ps) == IF ps = <<>> THEN <<>> ELSE Text(SubSeq(ps, 1, Len(ps) - 1)) \o ps[Len(ps)].text

\* the values a caller of _validate_command makes of an action string
Values(a) ==
    { DictOf(<< <<<<"a","c","t","i","o","n">>, Str(a)>>, <<<<"t","y","p","e">>, Str(<<"b","o","x">>)>> >>),
      DictOf(<< <<<<"t","y","p","e">>, Str(a)>> >>),
      DictOf(<< <<<<"a","c","t","i","o","n">>, Null>> >>),
      DictOf(<< <<<<"a","c","t","i","o","n">>, Number(Num(Len(a)))>> >>),
      Str(a),
      List(<<Str(a)>>),
      Null }

\* the instance, as the methods read it
Self ==
    [supported_actions |-> supported_actions, supported_types |-> supported_types,
     thread_sizes |-> thread_sizes]

Init ==
    /\ supported_actions = SupportedActions
    /\ supported_types = SupportedTypes
    /\ thread_sizes = ThreadSizes
    /\ op = "none"
    /\ pc = "idle"
    /\ parts = <<>>
    /\ arg = <<>>
    /\ ret = None
    /\ first = None

Begin(o) ==
    /\ pc = "idle"
    /\ op' = o
    /\ pc' = "compose"
    /\ UNCHANGED <<supported_actions, supported_types, thread_sizes, parts, arg, ret, first>>

Compose(p) ==
    /\ pc = "compose"
    /\ p \in Pool(op)
    /\ parts # <<>> => p.fam = parts[1].fam
    /\ Len(parts) < MaxPieces(p.fam)
    /\ parts' = Append(parts, p)
    /\ UNCHANGED <<supported_actions, supported_types, thread_sizes, op, pc, arg, ret, first>>

Call ==
    /\ pc = "compose"
    /\ arg' \in IF op = "_validate_command" THEN Values(Text(parts)) ELSE {Text(parts)}
    /\ pc' = "called"
    /\ UNCHANGED <<supported_actions, supported_types, thread_sizes, op, parts, ret, first>>

\* a faulty ParseResponse: the call takes the last supported action away
ParseResponseConsuming ==
    /\ pc = "called" /\ op = "parse_response"
    /\ ret' = parse_response(Self, arg)
    /\ pc' = "returned"
    /\ supported_actions' = SubSeq(supported_actions, 1, Len(supported_actions) - 1)
    /\ first' = IF first # None /\ first.arg # arg THEN [first EXCEPT !.between = TRUE]
                ELSE first
    /\ UNCHANGED <<supported_types, thread_sizes, op, parts, arg>>

\* no method assigns to a field of self; first notes that a call with
\* another text came after the call it keeps
ParseResponse ==
    /\ pc = "called" /\ op = "parse_response"
    /\ ret' = parse_response(Self, arg)
    /\ pc' = "returned"
    /\ first' = IF first # None /\ first.arg # arg THEN [first EXCEPT !.between = TRUE]
                ELSE first
    /\ UNCHANGED <<supported_actions, supported_types, thread_sizes, op, parts, arg>>

ExtractAllJson ==
    /\ pc = "called" /\ op = "_extract_all_json"
    /\ ret' = _extract_all_json(arg)
    /\ pc' = "returned"
    /\ UNCHANGED <<supported_actions, supported_types, thread_sizes, op, parts, arg, first>>

ValidateCommand ==
    /\ pc = "called" /\ op = "_validate_command"
    /\ ret' = _validate_command(Self, arg)
    /\ pc' = "returned"
    /\ UNCHANGED <<supported_actions, supported_types, thread_sizes, op, parts, arg, first>>

Finish ==
    /\ pc = "returned"
    /\ op' = "none"
    /\ pc' = "idle"
    /\ parts' = <<>>
    /\ arg' = <<>>
    /\ ret' = None
    /\ UNCHANGED <<supported_actions, supported_types, thread_sizes, first>>

\* the caller keeps the call and its result, to compare a later call with
Remember ==
    /\ pc = "returned" /\ op = "parse_response"
    /\ first = None
    /\ first' = [arg |-> arg, ret |-> ret, between |-> FALSE]
    /\ op' = "none"
    /\ pc' = "idle"
    /\ parts' = <<>>
    /\ arg' = <<>>
    /\ ret' = None
    /\ UNCHANGED <<supported_actions, supported_types, thread_sizes>>

Next ==
    \/ \E o \in Ops : Begin(o)
    \/ \E p \in ResponsePieces \cup SentencePieces \cup RequestPieces \cup ActionPieces : Compose(p)
    \/ Call
    \/ ParseResponse
    \/ ExtractAllJson
    \/ ValidateCommand
    \/ Finish

Spec == Init /\ [][Next]_vars

\* one instance, its callers keeping a call's result and calling again
NextRepeat ==
    \/ Begin("parse_response")
    \/ \E p \in RepeatPieces : Compose(p)
    \/ Call
    \/ ParseResponse
    \/ Remember
    \/ Finish

SpecRepeat == Init /\ [][NextRepeat]_vars

----------------------------------------------------------------------------
(* Properties                                                              *)

Returned(o) == pc = "returned" /\ op = o

\* the pieces of the argument that are JSON objects
IsObject(p) == p.kind \in {"bare", "fenced"}

\* C1: the result of parse_response has success true exactly when commands
\* is not empty, command is commands[0] when there is one and None
\* otherwise, and command_count is the length of commands.
C1_ResultShape ==
    Returned("parse_response") =>
        /\ ret.success <=> ret.commands # <<>>
        /\ ret.commands # <<>> => ret.command = ret.commands[1]
        /\ ret.commands = <<>> => ret.command = None
        /\ ret.command_count = Len(ret.commands)

C1_TwoCommands ==
    /\ Returned("parse_response")
    /\ ret.success
    /\ ret.command_count = 2
    /\ ret.commands[1] # ret.commands[2]

\* C2: parse_response returns a result whatever happens: where the
\* validation of a block raises, the result has success false, command
\* None, no commands, command_count 0 and an error holding the text of the
\* exception.
C2_NeverRaises ==
    Returned("parse_response") =>
        /\ "success" \in DOMAIN ret
        /\ ValidCommands(Self, _extract_all_json(arg), 1, Return(<<>>)).raised =>
              /\ ret.success = FALSE
              /\ ret.command = None
              /\ ret.commands = <<>>
              /\ ret.command_count = 0
              /\ ret.error = <<"Parsing error: ",
                               ValidCommands(Self, _extract_all_json(arg), 1, Return(<<>>)).exc.msg>>

C2_Raised ==
    /\ Returned("parse_response")
    /\ ValidCommands(Self, _extract_all_json(arg), 1, Return(<<>>)).raised
    /\ ret.error = <<"Parsing error: ", "'NoneType' object has no attribute 'lower'">>

\* C3, as the specification states it: a text with exactly one JSON object,
\* its action recognized, bare or fenced, in any prose and with any string
\* values, gives success, command_count 1 and that object as command.
OneObject ==
    /\ Cardinality({k \in 1..Len(parts) : IsObject(parts[k])}) = 1
    /\ \A k \in 1..Len(parts) :
           IF IsObject(parts[k])
           THEN "valid" \in parts[k].tags /\ "nested" \notin parts[k].tags
           ELSE parts[k].kind = "prose"

C3_SingleObject ==
    Returned("parse_response") /\ OneObject =>
        /\ ret.success
        /\ ret.command_count = 1
        /\ \E k \in 1..Len(parts) : IsObject(parts[k]) /\ ret.command = parts[k].value

\* C4, as the specification states it: a text of N JSON objects that pass
\* the validator, no two alike, bare or fenced, gives command_count N and
\* the commands in the order the objects stand in the text.
ValidObjects ==
    /\ parts # <<>>
    /\ \A k \in 1..Len(parts) :
           IsObject(parts[k]) /\ "valid" \in parts[k].tags /\ "strbrace" \notin parts[k].tags
    /\ \A j, k \in 1..Len(parts) : j # k => parts[j].json # parts[k].json

C4_AppearanceOrder ==
    Returned("parse_response") /\ ValidObjects =>
        /\ ret.command_count = Len(parts)
        /\ ret.commands = [k \in 1..Len(parts) |-> parts[k].value]

\* the action of the dict a caller validates, "" where it has none
ActionOf(command) == DictGet(command, <<"a","c","t","i","o","n">>, Str(<<>>))

\* the caller validates a dict whose action is the string a
Validated(a) ==
    /\ Returned("_validate_command")
    /\ arg.k = "dict"
    /\ ActionOf(arg) = Str(a)

Matches(a) ==
    \E k \in 1..Len(supported_actions) :
        \/ Lower(a) = supported_actions[k]
        \/ Contains(supported_actions[k], Lower(a))
        \/ Contains(Lower(a), supported_actions[k])

\* C6: on a value whose action is a string, _validate_command returns true
\* exactly when the value is a dict, the action is not empty and, in lower
\* case, it is a supported action, holds one or is held by one; a value
\* that is no dict is rejected.
C6_ValidateContract ==
    Returned("_validate_command") /\ (arg.k = "dict" => ActionOf(arg).k = "str") =>
        ret = Return(/\ arg.k = "dict"
                     /\ ActionOf(arg).s # <<>>
                     /\ Matches(ActionOf(arg).s))

C6_FuzzyAccepted ==
    /\ Returned("_validate_command")
    /\ arg.k = "dict"
    /\ ActionOf(arg).k = "str"
    /\ ~InList(Lower(ActionOf(arg).s), supported_actions)
    /\ ActionOf(arg).s # Lower(ActionOf(arg).s)
    /\ ret = Return(TRUE)

\* C7: no call changes supported_actions, supported_types or thread_sizes,
\* and a call of parse_response with the text of a call made before it
\* returns what that call returned, whatever calls came before or between.
C7_SameResult ==
    /\ supported_actions = SupportedActions
    /\ supported_types = SupportedTypes
    /\ thread_sizes = ThreadSizes
    /\ (Returned("parse_response") /\ first # None /\ first.arg = arg) => ret = first.ret

C7_AgainAfterAnother ==
    /\ Returned("parse_response")
    /\ first # None
    /\ first.arg = arg
    /\ first.between
    /\ ret = first.ret
    /\ ret.success

\* x without what follows its first occurrence of an element already in it
RECURSIVE Distinct(_)
Distinct(xs) ==
    IF xs = <<>> THEN <<>>
    ELSE IF InList(xs[Len(xs)], SubSeq(xs, 1, Len(xs) - 1))
         THEN Distinct(SubSeq(xs, 1, Len(xs) - 1))
         ELSE Append(Distinct(SubSeq(xs, 1, Len(xs) - 1)), xs[Len(xs)])

\* C8: of a text of bare objects, with objects nested in some, the scan
\* gives each object once, from its outermost opening brace to the closing
\* brace that matches it, and never an object nested in another.
BareObjects ==
    /\ \E k \in 1..Len(parts) : "nested" \in parts[k].tags
    /\ \A k \in 1..Len(parts) : parts[k].kind = "bare" /\ "strbrace" \notin parts[k].tags

C8_NestedOnce ==
    Returned("_extract_all_json") /\ BareObjects =>
        ret = Distinct([k \in 1..Len(parts) |-> parts[k].json])

C8_NestedAlone ==
    /\ Returned("_extract_all_json")
    /\ arg = <<"{","\"","a","\"",":"," ","{","\"","b","\"",":"," ","1","}","}">>
    /\ ret = <<arg>>

\* a metric thread token: a word that starts with M or m, digits after it
\* up to the end of the word or a '.'
HasThreadToken(s) ==
    \E i \in 1..Len(s) :
        /\ s[i] \in {"m", "M"}
        /\ i = 1 \/ s[i - 1] \notin WordChar
        /\ RunEnd(Chr(Digit), s, i + 1) > i + 1
        /\ \/ RunEnd(Chr(Digit), s, i + 1) > Len(s)
           \/ s[RunEnd(Chr(Digit), s, i + 1)] \notin WordChar

\* C9: a sentence with a metric thread token and one of hole, threaded, tap
\* and thread gives a threaded_hole command, whatever words of the later
\* rules it holds beside them.
ThreadSentence ==
    /\ parts # <<>> /\ parts[1].fam = "sentence"
    /\ HasThreadToken(arg)
    /\ AnyWordIn(<<<<"h","o","l","e">>, <<"t","h","r","e","a","d","e","d">>, <<"t","a","p">>, <<"t","h","r","e","a","d">>>>, Lower(arg))

C9_ThreadFirst ==
    Returned("parse_response") /\ ThreadSentence =>
        /\ ret.success
        /\ "inferred" \in DOMAIN ret
        /\ DictGet(ret.command, <<"t","y","p","e">>, Null) = Str(<<"t","h","r","e","a","d","e","d","_","h","o","l","e">>)

C9_ThreadedAndLonger ==
    /\ Returned("parse_response")
    /\ Len(parts) = 2
    /\ parts[1].text = <<"C","r","e","a","t","e"," ","a"," ","t","h","r","e","a","d","e","d"," ","M","6"," ","h","o","l","e",","," ","m","a","k","e"," ","i","t"," ","l","o","n","g","e","r">>
    /\ parts[2].text = <<" ","5","m","m"," ","s","h","o","r","t","e","r">>
    /\ DictGet(ret.command, <<"t","y","p","e">>, Null) = Str(<<"t","h","r","e","a","d","e","d","_","h","o","l","e">>)

\* C10: "Create a box 100x50x25mm" gives an inferred command with action
\* create, type box and the parameters width 100, height 50, depth 25 and
\* units mm.
C10_Box ==
    Returned("parse_response") /\ arg = <<"C","r","e","a","t","e"," ","a"," ","b","o","x"," ","1","0","0","x","5","0","x","2","5","m","m">> =>
        /\ ret.success
        /\ "inferred" \in DOMAIN ret /\ ret.inferred
        /\ DictGet(ret.command, <<"a","c","t","i","o","n">>, Null) = Str(<<"c","r","e","a","t","e">>)
        /\ DictGet(ret.command, <<"t","y","p","e">>, Null) = Str(<<"b","o","x">>)
        /\ DictGet(ret.command, <<"p","a","r","a","m","e","t","e","r","s">>, Null) =
               DictOf(<< <<<<"w","i","d","t","h">>, Number(Num(100))>>, <<<<"h","e","i","g","h","t">>, Number(Num(50))>>,
                         <<<<"d","e","p","t","h">>, Number(Num(25))>>, <<<<"u","n","i","t","s">>, Str(<<"m","m">>)>> >>)

C10_BoxParsed ==
    /\ Returned("parse_response")
    /\ arg = <<"C","r","e","a","t","e"," ","a"," ","b","o","x"," ","1","0","0","x","5","0","x","2","5","m","m">>
    /\ ret.command_count = 1

\* the parameters of the command of a result
ParametersOf(result) == DictGet(result.command, <<"p","a","r","a","m","e","t","e","r","s">>, EmptyDict)

\* C11, as the specification states it: "Add 10 M4 threaded holes" gives an
\* inferred threaded_hole command with thread_size M4, count 10 and the
\* default depth 15.
C11_TenHoles ==
    Returned("parse_response") /\ arg = <<"A","d","d"," ","1","0"," ","M","4"," ","t","h","r","e","a","d","e","d"," ","h","o","l","e","s">> =>
        /\ ret.success
        /\ "inferred" \in DOMAIN ret
        /\ DictGet(ret.command, <<"t","y","p","e">>, Null) = Str(<<"t","h","r","e","a","d","e","d","_","h","o","l","e">>)
        /\ DictGet(ParametersOf(ret), <<"t","h","r","e","a","d","_","s","i","z","e">>, Null) = Str(<<"M","4">>)
        /\ DictGet(ParametersOf(ret), <<"c","o","u","n","t">>, Null) = Number(Num(10))
        /\ DictGet(ParametersOf(ret), <<"d","e","p","t","h">>, Null) = Number(Num(15))

\* the end of the number that starts at i: digits, and a '.' with digits
NumberEnd(s, i) ==
    IF /\ RunEnd(Chr(Digit), s, i) < Len(s)
       /\ s[RunEnd(Chr(Digit), s, i)] = "."
       /\ s[RunEnd(Chr(Digit), s, i) + 1] \in Digit
    THEN RunEnd(Chr(Digit), s, RunEnd(Chr(Digit), s, i) + 1)
    ELSE RunEnd(Chr(Digit), s, i)

\* one of the units mm, cm, m, in and inch starts at j
UnitAt(s, j) ==
    /\ j <= Len(s)
    /\ \/ s[j] = "m"
       \/ j < Len(s) /\ <<s[j], s[j + 1]>> \in {<<"c", "m">>, <<"i", "n">>}

\* a number with a unit after it, spaces allowed between, starts at i
MagnitudeAt(s, i) ==
    s[i] \in Digit /\ UnitAt(s, RunEnd(Chr(Space), s, NumberEnd(s, i)))

HasMagnitude(s) == \E i \in 1..Len(s) : MagnitudeAt(s, i)

\* the first number of s that has a unit
FirstMagnitude(s) ==
    LET i == CHOOSE i \in 1..Len(s) :
                 MagnitudeAt(s, i) /\ \A j \in 1..(i - 1) : ~MagnitudeAt(s, j)
    IN  ToFloat(SubSeq(s, i, NumberEnd(s, i) - 1))

HasComparative(s) ==
    \E w \in {<<"l","o","n","g","e","r">>, <<"s","h","o","r","t","e","r">>, <<"w","i","d","e","r">>, <<"n","a","r","r","o","w","e","r">>, <<"t","h","i","c","k","e","r">>,
              <<"t","h","i","n","n","e","r">>, <<"t","a","l","l","e","r">>, <<"h","i","g","h","e","r">>, <<"d","e","e","p","e","r">>} : Contains(w, s)

HasShrinkWord(s) ==
    \E w \in {<<"s","h","o","r","t","e","r">>, <<"n","a","r","r","o","w","e","r">>, <<"t","h","i","n","n","e","r">>, <<"s","m","a","l","l","e","r">>} : Contains(w, s)

\* a sentence that the threaded-hole rule leaves to the later rules
Sentence == parts # <<>> /\ parts[1].fam \in {"sentence", "request"}
NotThreaded == Sentence /\ ~ThreadSentence

\* C12: a sentence that the relative-dimension rule takes with the magnitude
\* m (a comparative adjective, and m the first number with a unit, not 0)
\* gives the inferred command with action modify, type dimension, units mm
\* and delta -|m| when shorter, narrower, thinner or smaller occurs in the
\* text, +|m| otherwise.
C12_SignedDelta ==
    /\ Returned("parse_response") /\ NotThreaded
    /\ HasComparative(Lower(arg)) /\ HasMagnitude(Lower(arg))
    /\ FirstMagnitude(Lower(arg)).m # 0
    => /\ ret.success /\ "inferred" \in DOMAIN ret
       /\ DictGet(ret.command, <<"a","c","t","i","o","n">>, Null) = Str(<<"m","o","d","i","f","y">>)
       /\ DictGet(ret.command, <<"t","y","p","e">>, Null) = Str(<<"d","i","m","e","n","s","i","o","n">>)
       /\ DictGet(ParametersOf(ret), <<"u","n","i","t","s">>, Null) = Str(<<"m","m">>)
       /\ DictGet(ParametersOf(ret), <<"d","e","l","t","a">>, Null) =
              Number(IF HasShrinkWord(Lower(arg))
                     THEN NumNeg(NumAbs(FirstMagnitude(Lower(arg))))
                     ELSE NumAbs(FirstMagnitude(Lower(arg))))

\* "Make it 10mm longer" has given the delta 10
C12_TenLonger ==
    /\ Returned("parse_response")
    /\ arg = <<"M","a","k","e"," ","i","t"," ","1","0","m","m"," ","l","o","n","g","e","r">>
    /\ DictGet(ParametersOf(ret), <<"d","e","l","t","a">>, Null) = Number(Num(10))

\* a shrinking word after a growing one has given a negative delta
C12_Shrunk ==
    /\ Returned("parse_response")
    /\ arg = <<"M","a","k","e"," ","i","t"," ","1","0","m","m"," ","l","o","n","g","e","r"," ","5","m","m"," ","s","h","o","r","t","e","r">>
    /\ DictGet(ParametersOf(ret), <<"d","e","l","t","a">>, Null) = Number(Num(-10))

\* no part of the text is an object with a recognized action
NoValidObject == \A k \in 1..Len(parts) : "valid" \notin parts[k].tags

\* the text holds a word that one of the rules of the inferrer looks for
HasRuleWord(s) ==
    \/ HasComparative(s)
    \/ \E w \in {<<"b","o","x">>, <<"c","u","b","e">>, <<"r","e","c","t","a","n","g","u","l","a","r">>, <<"b","l","o","c","k">>, <<"p","l","a","t","e">>,
                 <<"c","y","l","i","n","d","e","r">>, <<"r","o","d">>, <<"t","u","b","e">>, <<"p","i","p","e">>, <<"r","o","u","n","d">>,
                 <<"h","o","l","e">>, <<"d","r","i","l","l">>, <<"b","o","r","e">>, <<"f","i","l","l","e","t">>, <<"r","a","d","i","u","s">>,
                 <<"c","h","a","m","f","e","r">>, <<"s","h","e","l","l">>, <<"h","o","l","l","o","w">>, <<"e","x","t","r","u","d","e">>,
                 <<"e","x","t","r","u","s","i","o","n">>, <<"b","o","s","s">>, <<"c","u","t">>, <<"p","o","c","k","e","t">>, <<"r","e","m","o","v","e">>,
                 <<"p","a","t","t","e","r","n">>, <<"t","h","r","e","a","d","e","d">>, <<"t","a","p">>, <<"t","h","r","e","a","d">>} : Contains(w, s)

\* the failure that parse_response reports for the text
IsCouldNotParse(result, text) ==
    /\ result.success = FALSE
    /\ result.command = None
    /\ result.commands = <<>>
    /\ result.command_count = 0
    /\ result.error = <<"Could not parse command from response">>
    /\ result.description = Str(text)
    /\ result.raw_response = text

\* C13, as the specification states it: a text with no valid structured
\* command and no word of any inference rule gives the failure with the
\* fixed message "Could not parse command from response", with description
\* and raw_response equal to the text.
C13_CouldNotParse ==
    Returned("parse_response") /\ NoValidObject /\ ~HasRuleWord(Lower(arg)) =>
        IsCouldNotParse(ret, arg)

\* what the code does give: the same for the texts where no object has an
\* action that is no string
NoNullAction ==
    \A k \in 1..Len(parts) :
        parts[k].value = None \/ ActionOf(parts[k].value).k = "str"

C13_WithoutNullAction ==
    Returned("parse_response") /\ NoValidObject /\ NoNullAction
        /\ ~HasRuleWord(Lower(arg)) => IsCouldNotParse(ret, arg)

\* the elements of a list
Elements(xs) == {xs[k] : k \in 1..Len(xs)}

\* the value v is a command with a recognized action
Recognized(v) ==
    /\ v.k = "dict"
    /\ ActionOf(v).k = "str"
    /\ ActionOf(v).s # <<>>
    /\ Matches(ActionOf(v).s)

\* the candidate text b is well-formed JSON for a recognized command
Passes(b) == JsonLoads(b).ok /\ Recognized(JsonLoads(b).val)

\* the values of the candidates of the text
ParsedObjects(text) ==
    { JsonLoads(b).val : b \in { c \in Elements(_extract_all_json(text)) : JsonLoads(c).ok } }

\* C14: when a candidate of the text passes the validation, the commands of
\* the result are parsed candidates only and the result has no inferred
\* marker; when none does, a successful result has exactly one command and
\* the marker inferred = true.
C14_InferredOnlyWithoutJson ==
    Returned("parse_response") =>
        IF \E b \in Elements(_extract_all_json(arg)) : Passes(b)
        THEN /\ "inferred" \notin DOMAIN ret
             /\ \A k \in 1..Len(ret.commands) : ret.commands[k] \in ParsedObjects(arg)
        ELSE ret.success =>
                 /\ ret.command_count = 1 /\ Len(ret.commands) = 1
                 /\ "inferred" \in DOMAIN ret /\ ret.inferred = TRUE

\* a parsed object was returned for a text in which the inferrer finds a
\* hole to drill
C14_JsonWins ==
    /\ Returned("parse_response")
    /\ Len(parts) = 2
    /\ parts[1].text = <<"{","\"","a","c","t","i","o","n","\"",":"," ","\"","R","e","m","o","v","e","s","\"",","," ","\"","t","y","p","e","\"",":"," ","\"","h","o","l","e","\"","}">>
    /\ parts[2].text = <<" ","t","h","e","n"," ","d","r","i","l","l"," ","a"," ","h","o","l","e"," ">>
    /\ _infer_command(arg) # None
    /\ ret.success /\ "inferred" \notin DOMAIN ret
    /\ ret.commands = <<parts[1].value>>

\* the inferrer gave the command of a text whose only object is not valid
C14_InferredBesideJson ==
    /\ Returned("parse_response")
    /\ \E k \in 1..Len(parts) : IsObject(parts[k])
    /\ ret.success /\ "inferred" \in DOMAIN ret /\ ret.command_count = 1

\* C15: every command in the commands of a result, parsed or inferred, is a
\* dict whose action is a non-empty string that is a supported action, holds
\* one or is held by one.
C15_ActionsRecognized ==
    Returned("parse_response") =>
        \A k \in 1..Len(ret.commands) : Recognized(ret.commands[k])

\* an action that is no supported action was accepted beside a supported one
C15_FuzzyAndExact ==
    /\ Returned("parse_response")
    /\ ret.command_count = 2
    /\ ~InList(ActionOf(ret.commands[1]).s, supported_actions)
    /\ InList(ActionOf(ret.commands[2]).s, supported_actions)

\* the objects of the text are balanced in their braces, whatever the prose
BalancedObjects == \A k \in 1..Len(parts) : "strbrace" \notin parts[k].tags

\* C16, as the specification states it: every brace-balanced object of the
\* text is among the candidates, also when the prose before it holds an
\* unmatched '}' or '{'.
C16_EveryObject ==
    Returned("_extract_all_json") /\ BalancedObjects =>
        \A k \in 1..Len(parts) : IsObject(parts[k]) => InList(parts[k].json, ret)

\* what the code does give: the same for the texts whose prose holds no
\* unmatched brace
C16_WithoutStrayBrace ==
    /\ Returned("_extract_all_json") /\ BalancedObjects
    /\ \A k \in 1..Len(parts) : "brace" \notin parts[k].tags
    => \A k \in 1..Len(parts) : IsObject(parts[k]) => InList(parts[k].json, ret)

\* C17, as the specification states it: no text is twice in the list of
\* candidates that _extract_all_json returns.
C17_NoDuplicates ==
    Returned("_extract_all_json") =>
        \A j, k \in 1..Len(ret) : j # k => ret[j] # ret[k]

\* what the code does give: an object is once in the list when at most one
\* of its occurrences is fenced
C17_BareOnce ==
    /\ Returned("_extract_all_json")
    /\ Cardinality({k \in 1..Len(parts) : parts[k].kind = "fenced"}) <= 1
    => \A j, k \in 1..Len(ret) : j # k => ret[j] # ret[k]

\* the candidate text b is well-formed JSON
WellFormed(b) == JsonLoads(b).ok

\* the candidate text b is a well-formed object whose action is no string
NoStringAction(b) ==
    /\ JsonLoads(b).ok
    /\ JsonLoads(b).val.k = "dict"
    /\ ActionOf(JsonLoads(b).val).k # "str"

\* the values of the candidates
Loaded(blocks) == [k \in 1..Len(blocks) |-> JsonLoads(blocks[k]).val]

\* C18: the commands of a result are the values of the well-formed candidates
\* that pass the validation, in the order of the candidates, whatever
\* malformed candidates stand before, between or after them; where none
\* passes, the commands are what the inferrer gives or none.  (A well-formed
\* candidate whose action is no string ends the call with no command.)
C18_MalformedDropped ==
    Returned("parse_response") =>
        IF \E b \in Elements(_extract_all_json(arg)) : NoStringAction(b)
        THEN ret.commands = <<>>
        ELSE IF \E b \in Elements(_extract_all_json(arg)) : Passes(b)
        THEN ret.commands = Loaded(SelectSeq(_extract_all_json(arg), Passes))
        ELSE "inferred" \in DOMAIN ret \/ ret.commands = <<>>

\* a malformed candidate stood before a valid one, which was returned alone
C18_AfterMalformed ==
    /\ Returned("parse_response")
    /\ Len(parts) = 2
    /\ parts[1].text = <<"{","o","o","p","s","}">>
    /\ "valid" \in parts[2].tags
    /\ \E b \in Elements(_extract_all_json(arg)) : ~WellFormed(b)
    /\ ret.commands = <<parts[2].value>>

\* C19, as the specification states it: _validate_command fails on no value,
\* it returns false for an object whose action is no string, and the
\* candidates that pass are returned, in their order, whatever the others
\* are.
C19_ValidationTotal ==
    /\ Returned("_validate_command") =>
           /\ ~ret.raised
           /\ arg.k = "dict" /\ ActionOf(arg).k # "str" => ret = Return(FALSE)
    /\ Returned("parse_response") =>
           ret.commands = Loaded(SelectSeq(_extract_all_json(arg), Passes))
              \/ "inferred" \in DOMAIN ret

\* what the code does give: no failure on a value whose action is a string
C19_TotalOnStrings ==
    /\ Returned("_validate_command")
    /\ arg.k = "dict" => ActionOf(arg).k = "str"
    => ~ret.raised

\* C20, as the specification states it: a sentence that the threaded-hole
\* rule does not take and that holds a comparative adjective gives the
\* dimension-modify command, with or without a magnitude, and no command of
\* a later rule.
C20_ComparativeWins ==
    Returned("parse_response") /\ NotThreaded /\ HasComparative(Lower(arg)) =>
        /\ ret.success /\ "inferred" \in DOMAIN ret
        /\ DictGet(ret.command, <<"a","c","t","i","o","n">>, Null) = Str(<<"m","o","d","i","f","y">>)
        /\ DictGet(ret.command, <<"t","y","p","e">>, Null) = Str(<<"d","i","m","e","n","s","i","o","n">>)

\* what the code does give: a command of a later rule, or none, where the
\* first number with a unit is 0 or there is none
C20_FallsThrough ==
    /\ Returned("parse_response") /\ NotThreaded /\ HasComparative(Lower(arg))
    /\ HasMagnitude(Lower(arg)) => FirstMagnitude(Lower(arg)).m = 0
    => ret = Fallback(LaterRules(arg, Lower(arg), Search(ThreadPattern, 1, Lower(arg))), arg)

\* the type of the command of a result, and a parameter of it
TypeOf(result) == DictGet(result.command, <<"t","y","p","e">>, Null)
Parameter(result, name) == DictGet(ParametersOf(result), name, Null)

\* the result is the inferred command of the type
InferredAs(type) ==
    /\ Returned("parse_response") /\ Sentence
    /\ ret.success /\ "inferred" \in DOMAIN ret
    /\ TypeOf(ret) = Str(type)

\* C21, as the specification states it: a value that the text does not name
\* is the default of the rule, whatever other numbers with a unit the text
\* holds: the depth of a threaded hole is 15, the diameter of a simple hole
\* 10 and its depth 20.
C21_DefaultUnlessNamed ==
    /\ InferredAs(<<"t","h","r","e","a","d","e","d","_","h","o","l","e">>) /\ ~Contains(<<"d","e","p","t","h">>, Lower(arg)) =>
           Parameter(ret, <<"d","e","p","t","h">>) = Number(Num(15))
    /\ InferredAs(<<"h","o","l","e">>) /\ ~Contains(<<"d","i","a","m","e","t","e","r">>, Lower(arg)) =>
           Parameter(ret, <<"d","i","a","m","e","t","e","r">>) = Number(Num(10))
    /\ InferredAs(<<"h","o","l","e">>) /\ ~Contains(<<"d","e","p","t","h">>, Lower(arg)) =>
           Parameter(ret, <<"d","e","p","t","h">>) = Number(Num(20))

\* what the code does give: the default where the text holds no number with
\* a unit at all
C21_DefaultWithoutMagnitude ==
    Returned("parse_response") /\ Sentence /\ ~HasMagnitude(Lower(arg)) =>
        C21_DefaultUnlessNamed

\* the number that starts at i, as a value
NumberAt(s, i) == ToFloat(SubSeq(s, i, NumberEnd(s, i) - 1))

\* where the number stands that follows the name at i, after spaces and a
\* ':' or '=' (0 where there is none)
NumberAfter(s, name, i) ==
    LET b == RunEnd(Chr(Space), s, i + Len(name))
        c == IF b <= Len(s) /\ s[b] \in {":", "="}
             THEN RunEnd(Chr(Space), s, b + 1) ELSE b
    IN  IF StartsAt(s, i, name) /\ c <= Len(s) /\ s[c] \in Digit THEN c ELSE 0

\* where the number stands that follows the name at i and the word of
NumberAfterOf(s, name, i) ==
    LET b == RunEnd(Chr(Space), s, i + Len(name))
        c == RunEnd(Chr(Space), s, b + 2)
    IN  IF /\ StartsAt(s, i, name) /\ b > i + Len(name)
           /\ StartsAt(s, b, <<"o","f">>) /\ c > b + 2
           /\ c <= Len(s) /\ s[c] \in Digit
        THEN c ELSE 0

\* the number at i stands before the name, a unit allowed between them
NumberBefore(s, name, i) ==
    LET b == RunEnd(Chr(Space), s, NumberEnd(s, i))
    IN  /\ s[i] \in Digit
        /\ \/ StartsAt(s, b, name)
           \/ \E u \in {<<"m","m">>, <<"c","m">>, <<"m">>, <<"i","n">>} :
                  StartsAt(s, b, u) /\ StartsAt(s, RunEnd(Chr(Space), s, b + Len(u)), name)

\* the least number of a set of positions that is not empty
Least(S) == CHOOSE i \in S : \A j \in S : i <= j

\* the value that the text states for the name: "name 5", "name: 5",
\* "name = 5", else "5 name", "5mm name", else "name of 5"; None where it
\* states none
Stated(s, name) ==
    LET after == {i \in 1..Len(s) : NumberAfter(s, name, i) > 0}
        before == {i \in 1..Len(s) : NumberBefore(s, name, i)}
        afterOf == {i \in 1..Len(s) : NumberAfterOf(s, name, i) > 0}
    IN  IF after # {} THEN NumberAt(s, NumberAfter(s, name, Least(after)))
        ELSE IF before # {} THEN NumberAt(s, Least(before))
        ELSE IF afterOf # {} THEN NumberAt(s, NumberAfterOf(s, name, Least(afterOf)))
        ELSE None

\* the first of the values that is stated, or else the default
FirstStated(values, default) ==
    IF \A k \in 1..Len(values) : values[k] = None THEN default
    ELSE values[Least({k \in 1..Len(values) : values[k] # None})]

\* C22, as the specification states it: the diameter of a cylinder is the
\* diameter the text names, or else twice the radius it names (with a unit
\* after it or without), or else 50; the height is the height it names, or
\* else the length, or else 100; the units are mm.
C22_CylinderComposition ==
    InferredAs(<<"c","y","l","i","n","d","e","r">>) =>
        /\ Parameter(ret, <<"d","i","a","m","e","t","e","r">>) =
               Number(IF Stated(Lower(arg), <<"d","i","a","m","e","t","e","r">>) # None
                      THEN Stated(Lower(arg), <<"d","i","a","m","e","t","e","r">>)
                      ELSE IF Stated(Lower(arg), <<"r","a","d","i","u","s">>) # None
                      THEN NumTimes2(Stated(Lower(arg), <<"r","a","d","i","u","s">>))
                      ELSE Num(50))
        /\ Parameter(ret, <<"h","e","i","g","h","t">>) =
               Number(FirstStated(<<Stated(Lower(arg), <<"h","e","i","g","h","t">>),
                                    Stated(Lower(arg), <<"l","e","n","g","t","h">>)>>, Num(100)))
        /\ Parameter(ret, <<"u","n","i","t","s">>) = Str(<<"m","m">>)

\* what the code does give: the same where the text holds no number with a
\* unit after it
C22_WithoutUnit ==
    InferredAs(<<"c","y","l","i","n","d","e","r">>) /\ ~HasMagnitude(Lower(arg)) => C22_CylinderComposition

\* the whole number whose digits start at i
WholeAt(s, i) == ToFloat(SubSeq(s, i, RunEnd(Chr(Digit), s, i) - 1))

\* one of the words starts at i
AnyStartsAt(s, i, words) == \E w \in words : StartsAt(s, i, w)

\* "<N> hole", "<N> threaded", "<N> tapped", an x allowed after the number:
\* the digits at i start such a form
HolesForm(s, i) ==
    LET b == RunEnd(Chr(Space), s, RunEnd(Chr(Digit), s, i))
    IN  /\ s[i] \in Digit
        /\ \/ AnyStartsAt(s, b, {<<"h","o","l","e">>, <<"t","h","r","e","a","d","e","d">>, <<"t","a","p","p","e","d">>})
           \/ /\ StartsAt(s, b, <<"x">>)
              /\ AnyStartsAt(s, RunEnd(Chr(Space), s, b + 1),
                             {<<"h","o","l","e">>, <<"t","h","r","e","a","d","e","d">>, <<"t","a","p","p","e","d">>})

\* "add <N>", "create <N>", "make <N>": where the number of the form at i
\* stands (0 where no such form starts at i)
VerbForm(s, i) ==
    LET verbs == {<<"a","d","d">>, <<"c","r","e","a","t","e">>, <<"m","a","k","e">>}
        w == IF AnyStartsAt(s, i, verbs)
             THEN CHOOSE v \in verbs : StartsAt(s, i, v) ELSE <<>>
        c == RunEnd(Chr(Space), s, i + Len(w))
    IN  IF /\ AnyStartsAt(s, i, {<<"a","d","d">>, <<"c","r","e","a","t","e">>, <<"m","a","k","e">>})
           /\ c > i + Len(w) /\ c <= Len(s) /\ s[c] \in Digit
        THEN c ELSE 0

\* "<N> of M<digits>", "<N> x M<digits>": the digits at i start such a form
OfThreadForm(s, i) ==
    LET b == RunEnd(Chr(Space), s, RunEnd(Chr(Digit), s, i))
    IN  /\ s[i] \in Digit
        /\ \E w \in {<<"o","f">>, <<"x">>} :
               /\ StartsAt(s, b, w)
               /\ StartsAt(s, RunEnd(Chr(Space), s, b + Len(w)), <<"m">>)
               /\ RunEnd(Chr(Space), s, b + Len(w)) < Len(s)
               /\ s[RunEnd(Chr(Space), s, b + Len(w)) + 1] \in Digit

\* the count that the four forms give, in their order
CountOf(s) ==
    LET holes == {i \in 1..Len(s) : HolesForm(s, i)}
        verb == {i \in 1..Len(s) : VerbForm(s, i) > 0}
        named == {i \in 1..Len(s) : NumberAfter(s, <<"c","o","u","n","t">>, i) > 0}
        ofThread == {i \in 1..Len(s) : OfThreadForm(s, i)}
    IN  IF holes # {} THEN WholeAt(s, Least(holes))
        ELSE IF verb # {} THEN WholeAt(s, VerbForm(s, Least(verb)))
        ELSE IF named # {} THEN WholeAt(s, NumberAfter(s, <<"c","o","u","n","t">>, Least(named)))
        ELSE IF ofThread # {} THEN WholeAt(s, Least(ofThread))
        ELSE Num(1)

\* C23: the count of an inferred threaded hole or pattern is the number of
\* the first of the four forms, in the order "<N> hole(s)/threaded/tapped",
\* "add|create|make <N>", "count[:=]<N>", "<N> of|x M<digits>", that is
\* somewhere in the text, wherever the other forms stand; it is 1 where
\* none is, and it is a whole number.
C23_CountForms ==
    /\ InferredAs(<<"t","h","r","e","a","d","e","d","_","h","o","l","e">>) \/ InferredAs(<<"c","i","r","c","u","l","a","r","_","p","a","t","t","e","r","n">>) =>
           /\ Parameter(ret, <<"c","o","u","n","t">>) = Number(CountOf(Lower(arg)))
           /\ Parameter(ret, <<"c","o","u","n","t">>).n.e = 0
    /\ InferredAs(<<"l","i","n","e","a","r","_","p","a","t","t","e","r","n">>) =>
           /\ Parameter(ret, <<"c","o","u","n","t","_","x">>) = Number(CountOf(Lower(arg)))
           /\ Parameter(ret, <<"c","o","u","n","t","_","x">>).n.e = 0

\* "4 threaded" was taken though "Add 10" stands before it in the text
C23_FormBeforePosition ==
    /\ InferredAs(<<"t","h","r","e","a","d","e","d","_","h","o","l","e">>)
    /\ arg = <<"A","d","d"," ","1","0"," ","M","4"," ","t","h","r","e","a","d","e","d"," ","h","o","l","e","s">>
    /\ Parameter(ret, <<"c","o","u","n","t">>) = Number(Num(4))

\* the other forms and the default were taken
C23_VerbForm ==
    InferredAs(<<"t","h","r","e","a","d","e","d","_","h","o","l","e">>) /\ arg = <<"M","a","k","e"," ","3"," ","M","5"," ","t","a","p","s">>
        /\ Parameter(ret, <<"c","o","u","n","t">>) = Number(Num(3))
C23_NamedForm ==
    InferredAs(<<"t","h","r","e","a","d","e","d","_","h","o","l","e">>) /\ arg = <<"T","a","p"," ","3"," ","o","f"," ","M","6",","," ","c","o","u","n","t",":"," ","8">>
        /\ Parameter(ret, <<"c","o","u","n","t">>) = Number(Num(8))
C23_OfThreadForm ==
    InferredAs(<<"t","h","r","e","a","d","e","d","_","h","o","l","e">>) /\ arg = <<"T","a","p"," ","3"," ","o","f"," ","M","6">>
        /\ Parameter(ret, <<"c","o","u","n","t">>) = Number(Num(3))
C23_Default ==
    InferredAs(<<"t","h","r","e","a","d","e","d","_","h","o","l","e">>) /\ arg = <<" ","M","6"," ","t","a","p">>
        /\ Parameter(ret, <<"c","o","u","n","t">>) = Number(Num(1))

\* "A x B": the number at i, a unit allowed after it, an x and a number
TimesForm(s, i) ==
    LET b == RunEnd(Chr(Space), s, NumberEnd(s, i))
        c == IF AnyStartsAt(s, b, {<<"m","m">>, <<"c","m">>, <<"i","n">>})
             THEN RunEnd(Chr(Space), s, b + 2)
             ELSE IF StartsAt(s, b, <<"m">>) THEN RunEnd(Chr(Space), s, b + 1)
             ELSE b
        d == RunEnd(Chr(Space), s, c + 1)
    IN  /\ s[i] \in Digit
        /\ StartsAt(s, c, <<"x">>)
        /\ d <= Len(s) /\ s[d] \in Digit

\* a number stands at i with one of the units cm, m, in and inch after it,
\* the unit a word of its own
OtherUnitAt(s, i) ==
    LET b == RunEnd(Chr(Space), s, NumberEnd(s, i))
    IN  /\ s[i] \in Digit
        /\ \E u \in {<<"c","m">>, <<"m">>, <<"i","n">>, <<"i","n","c","h">>} :
               /\ StartsAt(s, b, u)
               /\ b + Len(u) > Len(s) \/ s[b + Len(u)] \notin WordChar

\* the box that the inferrer made of a text with "A x B" in it
BoxOfTimes ==
    /\ InferredAs(<<"b","o","x">>)
    /\ \E i \in 1..Len(arg) : TimesForm(Lower(arg), i)

\* C24, as the specification states it: the units of the dimensions read
\* from "A x B" or "A x B x C" are mm where no number of the text has one
\* of the units cm, m, in and inch after it, whatever words the text holds.
C24_UnitsByToken ==
    BoxOfTimes /\ ~(\E i \in 1..Len(arg) : OtherUnitAt(Lower(arg), i)) =>
        Parameter(ret, <<"u","n","i","t","s">>) = Str(<<"m","m">>)

\* what the code does give: mm where the text holds none of "cm", " m "
\* and "in" anywhere, in a word or not
C24_UnitsByLetters ==
    /\ BoxOfTimes
    /\ ~Contains(<<"c","m">>, Lower(arg)) /\ ~Contains(<<"i","n">>, Lower(arg))
    /\ ~Contains(<<" ","m"," ">>, Lower(arg)) /\ ~EndsWith(Lower(arg), <<" ","m">>)
    => Parameter(ret, <<"u","n","i","t","s">>) = Str(<<"m","m">>)

\* one of the words that the threaded-hole rule asks for is in the text
HasThreadWord(s) ==
    \E w \in {<<"h","o","l","e">>, <<"t","h","r","e","a","d","e","d">>, <<"t","a","p">>, <<"t","h","r","e","a","d">>} : Contains(w, s)

\* C25: no inferred command of a text with a metric thread token is a
\* simple hole; where the text has none of hole, threaded, tap and thread
\* either, the command is no threaded hole either: the later rules decide,
\* or the call fails.
C25_NoHoleWithThread ==
    Returned("parse_response") /\ HasThreadToken(arg) =>
        /\ "inferred" \in DOMAIN ret => TypeOf(ret) # Str(<<"h","o","l","e">>)
        /\ ~HasThreadWord(Lower(arg)) /\ "inferred" \in DOMAIN ret =>
               TypeOf(ret) # Str(<<"t","h","r","e","a","d","e","d","_","h","o","l","e">>)

\* a thread token beside drill alone: no command
C25_DrillAlone ==
    /\ Returned("parse_response")
    /\ arg = <<" ","M","6"," ","d","r","i","l","l">>
    /\ HasThreadToken(arg) /\ ~HasThreadWord(Lower(arg))
    /\ ret.success = FALSE /\ ret.commands = <<>>

\* a thread token beside bore and fillet: the fillet rule decided
C25_BoreThenFillet ==
    /\ InferredAs(<<"f","i","l","l","e","t">>)
    /\ arg = <<"B","o","r","e"," ","M","6"," ","a","n","d"," ","f","i","l","l","e","t"," ","i","t">>
    /\ HasThreadToken(arg) /\ ~HasThreadWord(Lower(arg))

====
